---- MODULE Spec2Model ----
(***************************************************************************)
(* Tuggy-Arena: the movement counter, the dual-player face assignment and  *)
(* the tug-of-war game loop, as state machines.                            *)
(*                                                                         *)
(* Units.  Time is in milliseconds (Date.now()).  relativeX is a real      *)
(* number in the program; here it is an integer count of 1e-4, so the      *)
(* thresholds -0.001 / 0.001 are -10 / 10 and -0.002 is -20.               *)
(***************************************************************************)
EXTENDS Integers, Sequences, FiniteSets, TLC

VARIABLES
    now,          \* Date.now(), the wall clock read by MovementCounter.update
    counter,      \* one MovementCounter object (its fields)
    ret,          \* the object returned by the last update call
    call,         \* the arguments of the last update call
    lastOp,       \* which operation ran last
    pendL,        \* time of the latest LEFT classification not yet consumed
    pendR,        \* time of the latest RIGHT classification not yet consumed
    sawL,         \* a LEFT was classified since construction / reset
    sawR,         \* a RIGHT was classified since construction / reset
    \* useDualTongueDetection
    p1counter,            \* player1MovementCounterRef.current
    p2counter,            \* player2MovementCounterRef.current
    player1Count,         \* React state
    player2Count,         \* React state
    player1TongueState,   \* React state
    player2TongueState,   \* React state
    detectedFaces,        \* React state: faces.length of the last frame
    frame,                \* the last frame: the faces as delivered, and the
                          \* centre of the face each player processed
    \* TongueGame (with useTongueDetection, AIOpponent and TugOfWar3D)
    gameMode,             \* "null", "ai" or "human"
    player1IsActive,      \* useTongueDetection isActive
    dualIsActive,         \* useDualTongueDetection isActive
    count,                \* useTongueDetection count (TongueGame's player1Count)
    aiScore,              \* React state
    gameOver,             \* React state
    aiOpponent,           \* aiOpponentRef.current
    lastTimeSet,          \* lastTimeRef.current is not null
    frozenPlayer1Count,   \* frozenPlayer1CountRef.current
    frozenPlayer2Count,   \* frozenPlayer2CountRef.current
    winner,               \* TugOfWar3D state: "null", "player1" or "player2"
    frozenRopePosition,   \* TugOfWar3D frozenRopePositionRef.current
    \* useDualTongueDetection: camera, start-up and frame loop
    isActiveRef,          \* isActiveRef.current
    isDetecting,          \* React state
    error,                \* React state error is not null
    faceDetectorRef,      \* faceDetectorRef.current is not null
    pipelineRefs,         \* the detector, tracker and counter refs are set
    videoReady,           \* the video has a stream and a size (videoWidth > 0)
    startPc,              \* where a startDetection call in progress awaits
    rafs,                 \* requestAnimationFrame callbacks of processFrame
                          \* not yet run or cancelled
    refLive,              \* animationFrameRef.current names one of them
    sends,                \* processFrame calls awaiting faceDetector.send
    microtasks,           \* detections whose promise reaction is queued
    stopped,              \* stopDetection ran and startDetection was not
                          \* called since
    frameFailed,          \* per player: its processing of the last frame threw
    frameCounts,          \* the two counts when the last frame began
    opponent,             \* a rate-based AIOpponent on its own (its fields)
    sinceIncrement,       \* deltaTime summed since its last increment / start
    updateInput,          \* the userScore of its last update
    pullAI,               \* a pull-based AIOpponent (its fields)
    timeouts,             \* how many of its setTimeout calls are pending
    pullOp,               \* the last operation on the pull-based opponent
    pullCalled,           \* that operation called onScoreUpdate
    lastPull,             \* arguments and result of its last strength
    lastSchedule,         \* arguments and result of its last interval
    plain,                \* a MovementCounter never given minHoldFrames
    held,                 \* a MovementCounter given minHoldFrames
    plainRet,             \* what the last update of plain returned
    heldRet,              \* what the last update of held returned
    mouthRegion,          \* the argument of the last detectFromLandmarks
    detection,            \* what that call returned
    tracker,              \* a tongue tracker: its history and position
    tracked,              \* what its last update returned
    trackerCall,          \* the detection given to its last update
    lastAccepted,         \* relativeX returned by its last accepted update
    lastDir,              \* the latest LEFT or RIGHT a counter classified
    unscored,             \* its direction changes less its increments
    changedSince,         \* a direction change since its last increment
                          \* or clear
    pullGameCount,        \* count of useTongueDetection in the pull game
    pullGameDetecting,    \* its isActive and isDetecting (set together)
    closureCount,         \* the count the function last given to start
                          \* returns
    restarts              \* the counts closed over by the pending restart
                          \* timeouts of handleReset

counterVars == <<counter, ret, call, lastOp, pendL, pendR, sawL, sawR>>

dualVars == <<p1counter, p2counter, player1Count, player2Count,
              player1TongueState, player2TongueState, detectedFaces, frame>>

gameVars == <<gameMode, player1IsActive, dualIsActive, count, aiScore,
              gameOver, aiOpponent, lastTimeSet, frozenPlayer1Count,
              frozenPlayer2Count, winner, frozenRopePosition>>

hookVars == <<isActiveRef, isDetecting, error, faceDetectorRef, pipelineRefs,
              videoReady, startPc, rafs, refLive, sends, microtasks, stopped,
              frameFailed, frameCounts>>

rateVars == <<opponent, sinceIncrement, updateInput>>

pullVars == <<pullAI, timeouts, pullOp, pullCalled, lastPull, lastSchedule>>

aiVars == <<rateVars, pullVars>>

holdVars == <<plain, held, plainRet, heldRet>>

detectVars == <<mouthRegion, detection>>

trackerVars == <<tracker, tracked, trackerCall, lastAccepted>>

cycleVars == <<lastDir, unscored, changedSince>>

pullGameVars == <<pullGameCount, pullGameDetecting, closureCount, restarts>>

unitVars == <<holdVars, detectVars, trackerVars, cycleVars, pullGameVars>>

vars == <<now, counterVars, dualVars, gameVars, hookVars, aiVars, unitVars>>

----------------------------------------------------------------------------
(* Bounds of the model *)

MaxClock == 1100
MaxCount == 3
MaxDualClock == 600
MaxDualCount == 1
MaxScore == 20
MaxUnscored == 2

(* Program constants *)

timeWindow == 1000
DefaultLeftThreshold == -10
DefaultRightThreshold == 10

\* thresholds of the two counters (initialize, called from TongueGame with
\* leftThreshold -0.0003 / rightThreshold 0.0003; player 2 uses its defaults)
P1LeftThreshold == -3
P1RightThreshold == 3
P2LeftThreshold == -1
P2RightThreshold == 1

\* JavaScript null (a timestamp field that holds no time)
Null == -1
\* relativeX === null || relativeX === undefined
NoRelX == 99999

\* time that can pass between two calls
Deltas == {50, 400, 999, 1000, 1001}
\* relativeX arguments: below, at, between, at and above the thresholds, or absent
XVals == {-20, -10, 0, 10, 20}
XIn == XVals \cup {NoRelX}

Max(a, b) == IF a >= b THEN a ELSE b
Min(a, b) == IF a <= b THEN a ELSE b

----------------------------------------------------------------------------
(* MovementCounter *)

\* constructor(options).  options.minHoldFrames is not read: the field
\* minHoldFrames is undefined until setMinHoldFrames assigns it.
NewCounter(lt, rt) ==
    [ leftThreshold  |-> lt,
      rightThreshold |-> rt,
      currentState   |-> "CENTER",
      leftTimestamp  |-> Null,
      rightTimestamp |-> Null,
      count          |-> 0,
      lastTransition |-> "null",
      minHoldFrames  |-> Null ]

\* classifyPosition that takes no single frame for a held position
classifyPosition_HoldFrames(c, x) ==
    IF c.minHoldFrames > 1 THEN "CENTER"
    ELSE IF x < c.leftThreshold THEN "LEFT"
    ELSE IF x > c.rightThreshold THEN "RIGHT"
    ELSE "CENTER"

\* classifyPosition(relativeX)
classifyPosition(c, x) ==
    IF x < c.leftThreshold THEN "LEFT"
    ELSE IF x > c.rightThreshold THEN "RIGHT"
    ELSE "CENTER"

\* `if (this.rightTimestamp && ...)`: a timestamp is used only when it is
\* truthy; null and the number 0 are both falsy.
Truthy(ts) == ts # Null /\ ts # 0

\* `ts && (now - ts) <= this.timeWindow`
InWindow(ts, t) == Truthy(ts) /\ (t - ts) <= timeWindow

\* `ts && (now - ts) > this.timeWindow`
Expired(ts, t) == Truthy(ts) /\ (t - ts) > timeWindow

\* the early return of update: `!tongueOut || relativeX === null || ...`
EarlyReturn(x, out) == ~out \/ x = NoRelX

\* a tongue-in call that also zeroes the count (as reset() does)
ClearOnAbsent_ResetsCount(c, x, out) ==
    IF ~out
    THEN [c EXCEPT !.leftTimestamp = Null, !.rightTimestamp = Null,
                   !.currentState = "CENTER", !.count = 0]
    ELSE c

\* a tongue-in call that forces CENTER but keeps the pending timestamps
ClearOnAbsent_KeepsTimestamps(c, x, out) ==
    IF ~out THEN [c EXCEPT !.currentState = "CENTER"] ELSE c

\* the body of the early return: timestamps and state are cleared only
\* when the tongue is not out
ClearOnAbsent(c, x, out) ==
    IF ~out
    THEN [c EXCEPT !.leftTimestamp = Null, !.rightTimestamp = Null,
                   !.currentState = "CENTER"]
    ELSE c

\* scoring that does not clear the two timestamps afterwards
TrackAndScore_NoClear(c, x, t) ==
    LET newState == classifyPosition(c, x)
        c1 == [c EXCEPT !.currentState = newState]
    IN  IF newState = "LEFT"
        THEN LET c2 == [c1 EXCEPT !.leftTimestamp = t]
             IN  IF InWindow(c2.rightTimestamp, t)
                 THEN [c |-> [c2 EXCEPT !.count = @ + 1,
                                        !.lastTransition = "RIGHT_TO_LEFT"],
                       transition |-> "RIGHT_TO_LEFT"]
                 ELSE [c |-> c2, transition |-> "null"]
        ELSE IF newState = "RIGHT"
        THEN LET c2 == [c1 EXCEPT !.rightTimestamp = t]
             IN  IF InWindow(c2.leftTimestamp, t)
                 THEN [c |-> [c2 EXCEPT !.count = @ + 1,
                                        !.lastTransition = "LEFT_TO_RIGHT"],
                       transition |-> "LEFT_TO_RIGHT"]
                 ELSE [c |-> c2, transition |-> "null"]
        ELSE [c |-> c1, transition |-> "null"]

\* scoring that pairs a side with the previous event of the same side
TrackAndScore_SameSide(c, x, t) ==
    LET newState == classifyPosition(c, x)
        c1 == [c EXCEPT !.currentState = newState]
    IN  IF newState = "LEFT"
        THEN IF InWindow(c1.leftTimestamp, t)
             THEN [c |-> [c1 EXCEPT !.count = @ + 1,
                                    !.lastTransition = "RIGHT_TO_LEFT",
                                    !.leftTimestamp = Null,
                                    !.rightTimestamp = Null],
                   transition |-> "RIGHT_TO_LEFT"]
             ELSE [c |-> [c1 EXCEPT !.leftTimestamp = t], transition |-> "null"]
        ELSE IF newState = "RIGHT"
        THEN IF InWindow(c1.rightTimestamp, t)
             THEN [c |-> [c1 EXCEPT !.count = @ + 1,
                                    !.lastTransition = "LEFT_TO_RIGHT",
                                    !.leftTimestamp = Null,
                                    !.rightTimestamp = Null],
                   transition |-> "LEFT_TO_RIGHT"]
             ELSE [c |-> [c1 EXCEPT !.rightTimestamp = t], transition |-> "null"]
        ELSE [c |-> c1, transition |-> "null"]

\* the LEFT / RIGHT / CENTER branches of update (lines 66-98); the result
\* carries the transition of this call
TrackAndScore(c, x, t) ==
    LET newState == classifyPosition(c, x)
        c1 == [c EXCEPT !.currentState = newState]
    IN  IF newState = "LEFT"
        THEN LET c2 == [c1 EXCEPT !.leftTimestamp = t]
             IN  IF InWindow(c2.rightTimestamp, t)
                 THEN [c |-> [c2 EXCEPT !.count = @ + 1,
                                        !.lastTransition = "RIGHT_TO_LEFT",
                                        !.leftTimestamp = Null,
                                        !.rightTimestamp = Null],
                       transition |-> "RIGHT_TO_LEFT"]
                 ELSE [c |-> c2, transition |-> "null"]
        ELSE IF newState = "RIGHT"
        THEN LET c2 == [c1 EXCEPT !.rightTimestamp = t]
             IN  IF InWindow(c2.leftTimestamp, t)
                 THEN [c |-> [c2 EXCEPT !.count = @ + 1,
                                        !.lastTransition = "LEFT_TO_RIGHT",
                                        !.leftTimestamp = Null,
                                        !.rightTimestamp = Null],
                       transition |-> "LEFT_TO_RIGHT"]
                 ELSE [c |-> c2, transition |-> "null"]
        ELSE [c |-> c1, transition |-> "null"]

\* "Clean up old timestamps" (lines 100-106)
CleanUp(c, t) ==
    [c EXCEPT !.leftTimestamp  = IF Expired(@, t) THEN Null ELSE @,
              !.rightTimestamp = IF Expired(@, t) THEN Null ELSE @]

\* update(relativeX, tongueOut) at Date.now() = t: the counter afterwards
\* and the returned {count, state, transition}
CounterUpdate(c, x, out, t) ==
    IF EarlyReturn(x, out)
    THEN LET c1 == ClearOnAbsent(c, x, out)
         IN  [c |-> c1,
              ret |-> [count |-> c1.count, state |-> c1.currentState,
                       transition |-> "null"]]
    ELSE LET r  == TrackAndScore(c, x, t)
             c3 == CleanUp(r.c, t)
         IN  [c |-> c3,
              ret |-> [count |-> c3.count, state |-> c3.currentState,
                       transition |-> r.transition]]

\* setMinHoldFrames(frames)
setMinHoldFrames(c, frames) == [c EXCEPT !.minHoldFrames = frames]

\* reset()
CounterReset(c) ==
    [c EXCEPT !.count = 0, !.currentState = "CENTER",
              !.leftTimestamp = Null, !.rightTimestamp = Null,
              !.lastTransition = "null"]

----------------------------------------------------------------------------
(* History of the classifications, kept beside the counter: the time of   *)
(* the latest LEFT (RIGHT) that no later score, tongue-in call or reset    *)
(* has consumed.  Unlike the counter's own fields it tells "no LEFT yet"   *)
(* from "LEFT at time 0".                                                  *)

Classified(c, x, out) ==
    IF EarlyReturn(x, out) THEN "NONE" ELSE classifyPosition(c, x)

\* classifying cls after dir is a change of direction
DirectionChange(dir, cls) ==
    dir \in {"LEFT", "RIGHT"} /\ cls \in {"LEFT", "RIGHT"} /\ cls # dir

PendAfter(pend, side, c, x, out, t, scored) ==
    IF ~out \/ scored THEN Null
    ELSE IF Classified(c, x, out) = side THEN t
    ELSE pend

----------------------------------------------------------------------------
(* The counter driven by arbitrary calls *)

NoCall == [x |-> NoRelX, out |-> FALSE]
NoRet == [count |-> 0, state |-> "CENTER", transition |-> "null"]
NoFrame == [centers |-> <<>>, p1 |-> Null, p2 |-> Null,
            p1absent |-> FALSE, p2absent |-> FALSE]
\* aiOpponentRef.current === null
NoAI == [exists |-> FALSE, score |-> 0, difficultyMultiplier |-> 100,
         timeAccumulator |-> 0, targetInterval |-> 0]

\* new MovementCounter() with the default thresholds, nothing called yet
InitCounter ==
    /\ counter = NewCounter(DefaultLeftThreshold, DefaultRightThreshold)
    /\ ret = NoRet
    /\ call = NoCall
    /\ lastOp = "new"
    /\ pendL = Null
    /\ pendR = Null
    /\ sawL = FALSE
    /\ sawR = FALSE

\* useDualTongueDetection after initialize(): two counters, React state
InitDualHook ==
    /\ p1counter = NewCounter(P1LeftThreshold, P1RightThreshold)
    /\ p2counter = NewCounter(P2LeftThreshold, P2RightThreshold)
    /\ player1Count = 0
    /\ player2Count = 0
    /\ player1TongueState = "CENTER"
    /\ player2TongueState = "CENTER"
    /\ detectedFaces = 0
    /\ frame = NoFrame

\* TongueGame as mounted: no mode chosen, no AI opponent yet
InitGame ==
    /\ gameMode = "null"
    /\ player1IsActive = FALSE
    /\ dualIsActive = FALSE
    /\ count = 0
    /\ aiScore = 0
    /\ gameOver = FALSE
    /\ aiOpponent = NoAI
    /\ lastTimeSet = FALSE
    /\ frozenPlayer1Count = Null
    /\ frozenPlayer2Count = Null
    /\ winner = "null"
    /\ frozenRopePosition = Null

\* useDualTongueDetection as mounted: nothing initialized, no camera
InitFrameLoop ==
    /\ isActiveRef = FALSE
    /\ isDetecting = FALSE
    /\ error = FALSE
    /\ faceDetectorRef = FALSE
    /\ pipelineRefs = FALSE
    /\ videoReady = FALSE
    /\ startPc = "idle"
    /\ rafs = 0
    /\ refLive = FALSE
    /\ sends = 0
    /\ microtasks = <<>>
    /\ stopped = FALSE
    /\ frameFailed = <<FALSE, FALSE>>
    /\ frameCounts = <<0, 0>>

\* no rate-based AIOpponent has been constructed on its own yet
InitRate ==
    /\ opponent = NoAI
    /\ sinceIncrement = 0
    /\ updateInput = Null

\* nothing computed yet by calculatePullStrength / calculatePullInterval
NoPull == [userScore |-> Null, score |-> Null, result |-> Null]

\* new AIOpponent() of the pull-based class: score 0, no timer, no
\* callbacks, not active
NewPullOpponent ==
    [score |-> 0, pullTimer |-> "null", onScoreUpdate |-> FALSE,
     getUserScore |-> FALSE, isActive |-> FALSE]

InitPull ==
    /\ pullAI = NewPullOpponent
    /\ timeouts = 0
    /\ pullOp = "new"
    /\ pullCalled = FALSE
    /\ lastPull = NoPull
    /\ lastSchedule = NoPull

\* new MovementCounter(options) twice, the second time with
\* options.minHoldFrames given
InitHold ==
    /\ plain = NewCounter(P1LeftThreshold, P1RightThreshold)
    /\ held = NewCounter(P1LeftThreshold, P1RightThreshold)
    /\ plainRet = NoRet
    /\ heldRet = NoRet

\* a mouthRegion that is null, and a detection that is null
NoRegion == [given |-> FALSE, innerLandmarks |-> <<>>, height |-> 0]
NoDetection == [isNull |-> TRUE, tongueOut |-> FALSE, confidence |-> 0,
                openingRatio |-> 0]

\* detectFromLandmarks not called yet
InitDetect ==
    /\ mouthRegion = NoRegion
    /\ detection = NoDetection

\* a detection that is null, and the position of a tracker that has none
NullDetection == [given |-> FALSE, relativeX |-> 0, confidence |-> 0,
                  tongueOut |-> FALSE]
NoPosition == [given |-> FALSE, relativeX |-> NoRelX, isVisible |-> FALSE]

\* a new tracker: empty history, no position
NewTracker == [history |-> <<>>, position |-> NoPosition]

InitTracker ==
    /\ tracker = NewTracker
    /\ tracked = NoPosition
    /\ trackerCall = NullDetection
    /\ lastAccepted = NoRelX

\* nothing classified yet
InitCycle ==
    /\ lastDir = "NONE"
    /\ unscored = 0
    /\ changedSince = FALSE

\* the pull game mounted: count 0, detection not started, nothing scheduled
InitPullGame ==
    /\ pullGameCount = 0
    /\ pullGameDetecting = FALSE
    /\ closureCount = 0
    /\ restarts = <<>>

Init ==
    /\ now = 0
    /\ InitCounter
    /\ InitDualHook
    /\ InitGame
    /\ InitFrameLoop
    /\ InitRate
    /\ InitPull
    /\ InitHold
    /\ InitDetect
    /\ InitTracker
    /\ InitCycle
    /\ InitPullGame

\* time passes
Tick(d) ==
    /\ now + d <= MaxClock
    /\ now' = now + d
    /\ lastOp' = "tick"
    /\ UNCHANGED <<counter, ret, call, pendL, pendR, sawL, sawR>>
    /\ UNCHANGED <<dualVars, gameVars, hookVars, aiVars, unitVars>>

\* counter.update(x, out): what it does to the counter and its history
UpdateCalled(x, out) ==
    LET r == CounterUpdate(counter, x, out, now)
        scored == r.c.count # counter.count
        cls == Classified(counter, x, out)
    IN  /\ counter.count < MaxCount
        /\ counter' = r.c
        /\ ret' = r.ret
        /\ call' = [x |-> x, out |-> out]
        /\ lastOp' = "update"
        /\ pendL' = PendAfter(pendL, "LEFT", counter, x, out, now, scored)
        /\ pendR' = PendAfter(pendR, "RIGHT", counter, x, out, now, scored)
        /\ sawL' = (sawL \/ cls = "LEFT")
        /\ sawR' = (sawR \/ cls = "RIGHT")

\* counter.update(x, out)
Update(x, out) ==
    /\ UpdateCalled(x, out)
    /\ UNCHANGED <<now, dualVars, gameVars, hookVars, aiVars, unitVars>>

\* counter.reset()
Reset ==
    /\ counter' = CounterReset(counter)
    /\ lastOp' = "reset"
    /\ pendL' = Null
    /\ pendR' = Null
    /\ sawL' = FALSE
    /\ sawR' = FALSE
    /\ UNCHANGED <<now, ret, call, dualVars, gameVars, hookVars, aiVars, unitVars>>

Next ==
    \/ \E d \in Deltas : Tick(d)
    \/ \E x \in XIn, out \in BOOLEAN : Update(x, out)
    \/ Reset

Spec == Init /\ [][Next]_vars

----------------------------------------------------------------------------
(* useDualTongueDetection: one camera frame with 0, 1 or 2 faces          *)

\* time between two frames
FrameDeltas == {600}

\* smoothed relativeX a tracker returns for a detection
TrackedX == {-4, -2, 4}

\* A face as the frame pipeline sees it: cx is the centre computed from its
\* landmarks (centerX), kind is how far the face gets through the pipeline:
\*   "nomouth"  extractMouthRegion returns null
\*   "nodet"    detect returns null (mouth not open enough)
\*   "lowconf"  a detection the tracker rejects (isVisible false)
\*   "ok"       a detection the tracker accepts (isVisible true)
\* and x is the relativeX the tracker returns for it (used by "lowconf"
\* and "ok" only).
Centers == {1, 2}
Faces ==
    [cx : Centers, kind : {"nomouth", "nodet"}, x : {0}]
       \cup [cx : Centers, kind : {"lowconf"}, x : {4}]
       \cup [cx : Centers, kind : {"ok"}, x : TrackedX]
\* results.multiFaceLandmarks: 0, 1 or 2 faces in the detector's order
FaceSeqs == {<<>>} \cup {<<f>> : f \in Faces}
                   \cup {<<f, g>> : f \in Faces, g \in Faces}

\* facesWithPosition.sort((a, b) => a.centerX - b.centerX): a stable sort,
\* ascending by centre (insertion of each face behind the faces it does not
\* precede)
RECURSIVE InsertByCenter(_, _)
InsertByCenter(sorted, f) ==
    IF sorted = <<>> THEN <<f>>
    ELSE IF f.cx < Head(sorted).cx THEN <<f>> \o sorted
    ELSE <<Head(sorted)>> \o InsertByCenter(Tail(sorted), f)

\* the face order left as the detector delivered it
SortByCenter_Unsorted(faces) == faces

RECURSIVE SortByCenter(_)
SortByCenter(faces) ==
    IF faces = <<>> THEN <<>>
    ELSE InsertByCenter(SortByCenter(SubSeq(faces, 1, Len(faces) - 1)),
                        faces[Len(faces)])

\* `facesWithPosition.length >= 2 ? facesWithPosition[1] : facesWithPosition[0]`
\* (JavaScript indexes from 0)
Player1Face(fwp) == IF Len(fwp) >= 2 THEN fwp[2] ELSE fwp[1]

\* `facesWithPosition[0]`
Player2Face(fwp) == fwp[1]

\* `trackedPosition?.relativeX || null`
OrNull(x) == IF x = 0 THEN NoRelX ELSE x

\* the kinds of face that end the pipeline before the tracker: no mouth
\* region, or a null detection
AbsentKinds == {"nomouth", "nodet"}

\* processPlayer1 / processPlayer2 from the chosen face on: the player's
\* counter, count and tongue state afterwards
ProcessFace(c, cnt, f, t) ==
    IF f.kind \in AbsentKinds
    THEN [c |-> c, count |-> cnt, state |-> "CENTER"]
    ELSE IF f.kind = "ok"
    THEN LET r == CounterUpdate(c, f.x, TRUE, t)
         IN  [c |-> r.c, count |-> r.ret.count, state |-> r.ret.state]
    ELSE LET r == CounterUpdate(c, OrNull(f.x), FALSE, t)
         IN  [c |-> r.c, count |-> cnt, state |-> r.ret.state]

\* processPlayer1
ProcessPlayer1(fwp, t) ==
    IF Len(fwp) = 0
    THEN [c |-> p1counter, count |-> player1Count, state |-> "CENTER",
          src |-> Null, absent |-> TRUE]
    ELSE LET f == Player1Face(fwp)
             r == ProcessFace(p1counter, player1Count, f, t)
         IN  [c |-> r.c, count |-> r.count, state |-> r.state, src |-> f.cx,
              absent |-> f.kind \in AbsentKinds]

\* processPlayer2
ProcessPlayer2(fwp, t) ==
    IF Len(fwp) = 0
    THEN [c |-> p2counter, count |-> player2Count, state |-> "CENTER",
          src |-> Null, absent |-> TRUE]
    ELSE LET f == Player2Face(fwp)
             r == ProcessFace(p2counter, player2Count, f, t)
         IN  [c |-> r.c, count |-> r.count, state |-> r.state, src |-> f.cx,
              absent |-> f.kind \in AbsentKinds]

\* handleFaceResults(results): what the frame does to the hook
FrameResult(faces, t) ==
    LET fwp == SortByCenter(faces)
        r1 == ProcessPlayer1(fwp, t)
        r2 == ProcessPlayer2(fwp, t)
    IN  [p1 |-> r1, p2 |-> r2, n |-> Len(faces)]

CentersOf(faces) == [i \in 1..Len(faces) |-> faces[i].cx]

\* handleFaceResults(results)
HandleFaceResults(faces) ==
    LET r == FrameResult(faces, now)
    IN  /\ p1counter.count < MaxDualCount
        /\ p2counter.count < MaxDualCount
        /\ p1counter' = r.p1.c
        /\ player1Count' = r.p1.count
        /\ player1TongueState' = r.p1.state
        /\ p2counter' = r.p2.c
        /\ player2Count' = r.p2.count
        /\ player2TongueState' = r.p2.state
        /\ detectedFaces' = r.n
        /\ frame' = [centers |-> CentersOf(faces),
                     p1 |-> r.p1.src, p2 |-> r.p2.src,
                     p1absent |-> r.p1.absent, p2absent |-> r.p2.absent]
        /\ UNCHANGED <<now, counterVars, gameVars, hookVars, aiVars, unitVars>>

\* time passes between two frames
FrameTick(d) ==
    /\ now + d <= MaxDualClock
    /\ now' = now + d
    /\ UNCHANGED <<counterVars, dualVars, gameVars, hookVars, aiVars, unitVars>>

\* resetCounts(): what it writes
ResetCountsEffect ==
    /\ p1counter' = CounterReset(p1counter)
    /\ p2counter' = CounterReset(p2counter)
    /\ player1Count' = 0
    /\ player2Count' = 0
    /\ player1TongueState' = "CENTER"
    /\ player2TongueState' = "CENTER"

\* resetCounts()
ResetCounts ==
    /\ ResetCountsEffect
    /\ UNCHANGED <<now, counterVars, detectedFaces, frame, gameVars,
                   hookVars, aiVars, unitVars>>

NextDual ==
    \/ \E d \in FrameDeltas : FrameTick(d)
    \/ \E faces \in FaceSeqs : HandleFaceResults(faces)
    \/ ResetCounts

SpecDual == Init /\ [][NextDual]_vars

----------------------------------------------------------------------------
(* Claims about MovementCounter (specification Spec)                       *)

\* the step is an update call: its arguments are call', its result ret'
IsUpdate == lastOp' = "update"
\* the classification of the call's relativeX (tongue out, relativeX given)
CallClass == classifyPosition(counter, call'.x)
ClassifyingCall == IsUpdate /\ call'.out /\ call'.x # NoRelX

\* C1: count is a natural number; no update call decreases it, and a step
\* that decreases it is a reset(), which sets it to 0.
C1_CountMonotone ==
    [][ /\ counter'.count \in Nat
        /\ (IsUpdate => counter'.count >= counter.count)
        /\ (counter'.count < counter.count
               => lastOp' = "reset" /\ counter'.count = 0) ]_vars

C1_Witness ==
    lastOp = "reset" /\ counter.count = 0 /\ ret.count = 2

\* C2: a RIGHT classified at t2 while the latest unconsumed LEFT was
\* classified at t1 increments count by exactly 1 when t2 - t1 <= timeWindow
\* and leaves it unchanged otherwise, for every t1 >= 0; the same with the
\* two sides exchanged.
C2_WindowBoundary ==
    [][ ClassifyingCall =>
          /\ (CallClass = "RIGHT" /\ pendL # Null)
                => counter'.count = counter.count
                      + (IF now - pendL <= timeWindow THEN 1 ELSE 0)
          /\ (CallClass = "LEFT" /\ pendR # Null)
                => counter'.count = counter.count
                      + (IF now - pendR <= timeWindow THEN 1 ELSE 0) ]_vars

\* C2 with the first event of the pair at a clock value other than 0
C2_WindowBoundaryNonzero ==
    [][ ClassifyingCall =>
          /\ (CallClass = "RIGHT" /\ pendL # Null /\ pendL # 0)
                => counter'.count = counter.count
                      + (IF now - pendL <= timeWindow THEN 1 ELSE 0)
          /\ (CallClass = "LEFT" /\ pendR # Null /\ pendR # 0)
                => counter'.count = counter.count
                      + (IF now - pendR <= timeWindow THEN 1 ELSE 0) ]_vars

\* C3: an update that increments count leaves both timestamps null, and a
\* following classification on the side that scored does not increment count.
C3_NoDoubleCount ==
    [][ /\ (IsUpdate /\ counter'.count > counter.count)
              => /\ counter'.leftTimestamp = Null
                 /\ counter'.rightTimestamp = Null
        /\ (ClassifyingCall /\ ret.transition # "null"
                /\ CallClass = ret.state)
              => counter'.count = counter.count ]_vars

\* LEFT, then RIGHT 500 ms later (scores), then RIGHT 100 ms later again
C3_Witness ==
    /\ lastOp = "update" /\ call = [x |-> 20, out |-> TRUE]
    /\ counter.count = 1 /\ counter.lastTransition = "LEFT_TO_RIGHT"
    /\ ret.transition = "null" /\ ret.state = "RIGHT"
    /\ pendL = Null /\ pendR = now /\ now = 650

\* C4: as long as no RIGHT was classified, or no LEFT was, count is 0.
C4_AlternationRequired ==
    (~sawR \/ ~sawL) => counter.count = 0

\* LEFT classified again more than a window after the clock started
C4_Witness ==
    /\ sawL /\ ~sawR /\ lastOp = "update" /\ call = [x |-> -20, out |-> TRUE]
    /\ counter.leftTimestamp = now /\ now > timeWindow

C6_AbsentRelativeX ==
    (lastOp = "update" /\ call.x = NoRelX) =>
        /\ counter.leftTimestamp = Null
        /\ counter.rightTimestamp = Null
        /\ counter.currentState = "CENTER"

\* C7, classification and transition: the returned state is the class of
\* relativeX, the transition names the side that scored, CENTER never scores.
C7_Classification ==
    [][ ClassifyingCall =>
          /\ (ret'.state = "LEFT") = (call'.x < counter.leftThreshold)
          /\ (ret'.state = "RIGHT") = (call'.x > counter.rightThreshold)
          /\ ret'.state \in {"LEFT", "RIGHT", "CENTER"}
          /\ (ret'.transition = "LEFT_TO_RIGHT")
                = (counter'.count > counter.count /\ CallClass = "RIGHT")
          /\ (ret'.transition = "RIGHT_TO_LEFT")
                = (counter'.count > counter.count /\ CallClass = "LEFT")
          /\ (ret'.transition = "null") = (counter'.count = counter.count)
          /\ (CallClass = "CENTER" => counter'.count = counter.count)
          /\ ret'.count = counter'.count ]_vars

\* C7, the scenario: after update(-0.002, true) at t = 0 on a new counter,
\* update(0.002, true) at t = 400 returns RIGHT / 1 / LEFT_TO_RIGHT.
C7_ScenarioStep ==
    [][ (ClassifyingCall /\ call'.x = 20 /\ now = 400
            /\ pendL = 0 /\ pendR = Null /\ counter.count = 0
            /\ counter.currentState = "LEFT")
          => ret' = [count |-> 1, state |-> "RIGHT",
                     transition |-> "LEFT_TO_RIGHT"] ]_vars

\* C7: classification, transition and the scenario together
C7_ClassifyAndScenario == C7_Classification /\ C7_ScenarioStep

----------------------------------------------------------------------------
(* Claims about useDualTongueDetection (specification SpecDual)            *)

\* C8: while the last frame had fewer than two faces, player 2's count
\* (the counter's and the one shown) does not go up.
C8_SingleFaceLeavesP2 ==
    [][ detectedFaces' < 2 =>
          /\ p2counter'.count <= p2counter.count
          /\ player2Count' <= player2Count ]_vars

----------------------------------------------------------------------------
(* TongueGame, AIOpponent (rate based) and TugOfWar3D                      *)
(* A React commit is atomic with the handler that caused it: the handler's *)
(* state updates are batched, the components render, the effects whose     *)
(* dependencies changed run (TugOfWar3D's before TongueGame's, each        *)
(* component's in declaration order), and a state update made by an effect *)
(* renders again until nothing changes.  Only the requestAnimationFrame    *)
(* callback of the game loop is a step of its own.                         *)

\* TongueGame passes minInterval 500 and maxInterval 2000
minInterval == 500
maxInterval == 2000
\* maxScoreDifference, in TongueGame's game loop and in TugOfWar3D
maxScoreDifference == 20
\* TugOfWar3D base lines, in tenths of a world unit (-12 and 12)
baseUserX == -120
baseAiX == 120
\* 100 * randomFactor = 100 + (Math.random() - 0.5) * 60, Math.random() < 1
RandomFactors == {70, 100, 129}
\* requestAnimationFrame time between two game loop callbacks, ms; each is
\* a multiple of 100 ms
LoopDeltas == {1000, 2000}

\* calculateTargetInterval() without the lower clamp
calculateTargetInterval_NoMin(difficulty, rf) ==
    LET baseInterval == (minInterval + maxInterval) \div 2
        adjusted == (baseInterval * rf + difficulty * 100 - 1)
                        \div (difficulty * 100)
    IN  Min(maxInterval, adjusted * 100)

\* calculateTargetInterval(): difficulty is 100 * difficultyMultiplier and
\* rf is 100 * randomFactor.  The interval is rounded up to a multiple of
\* 100 ms: the accumulated time it is compared with is a sum of LoopDeltas,
\* all multiples of 100 ms, so no comparison changes.
calculateTargetInterval(difficulty, rf) ==
    LET baseInterval == (minInterval + maxInterval) \div 2
        adjusted == (baseInterval * rf + difficulty * 100 - 1)
                        \div (difficulty * 100)
    IN  Max(minInterval, Min(maxInterval, adjusted * 100))

\* new AIOpponent({...}); difficultyMultiplier (here times 100) is 1.0
NewAIOpponent(rf) ==
    [exists |-> TRUE, score |-> 0, difficultyMultiplier |-> 100,
     timeAccumulator |-> 0,
     targetInterval |-> calculateTargetInterval(100, rf)]

\* AIOpponent.update(userScore, deltaTime):
\* difficultyMultiplier = 1.0 + (userScore / 50) * 0.5, here times 100
AIUpdate_NoAccumulate(ai, userScore, deltaTime, rf) ==
    LET difficulty == 100 + userScore
    IN  IF deltaTime >= ai.targetInterval
        THEN [ai EXCEPT !.difficultyMultiplier = difficulty,
                        !.score = ai.score + 1,
                        !.timeAccumulator = 0,
                        !.targetInterval =
                            calculateTargetInterval(difficulty, rf)]
        ELSE [ai EXCEPT !.difficultyMultiplier = difficulty]

\* update carrying the time beyond targetInterval over to the next interval
AIUpdate_CarryOver(ai, userScore, deltaTime, rf) ==
    LET difficulty == 100 + userScore
        acc == ai.timeAccumulator + deltaTime
    IN  IF acc >= ai.targetInterval
        THEN [ai EXCEPT !.difficultyMultiplier = difficulty,
                        !.score = ai.score + 1,
                        !.timeAccumulator = acc - ai.targetInterval,
                        !.targetInterval =
                            calculateTargetInterval(difficulty, rf)]
        ELSE [ai EXCEPT !.difficultyMultiplier = difficulty,
                        !.timeAccumulator = acc]

AIUpdate(ai, userScore, deltaTime, rf) ==
    LET difficulty == 100 + userScore
        acc == ai.timeAccumulator + deltaTime
    IN  IF acc >= ai.targetInterval
        THEN [ai EXCEPT !.difficultyMultiplier = difficulty,
                        !.score = ai.score + 1,
                        !.timeAccumulator = 0,
                        !.targetInterval =
                            calculateTargetInterval(difficulty, rf)]
        ELSE [ai EXCEPT !.difficultyMultiplier = difficulty,
                        !.timeAccumulator = acc]

\* AIOpponent.reset()
AIReset(ai, rf) ==
    [ai EXCEPT !.score = 0, !.difficultyMultiplier = 100,
               !.timeAccumulator = 0,
               !.targetInterval = calculateTargetInterval(100, rf)]

\* calculateRopePosition moving 45 per maxScoreDifference
calculateRopePosition_Steep(userScore, opponentScore) ==
    50 - ((userScore - opponentScore) * 45) \div maxScoreDifference

\* 50 - (scoreDifference / maxScoreDifference) * 40
calculateRopePosition(userScore, opponentScore) ==
    50 - ((userScore - opponentScore) * 40) \div maxScoreDifference

\* TugOfWar.calculateRopePosition and the game loop's clampedPosition:
\* Math.max(10, Math.min(90, position))
clampedRopePosition(userScore, opponentScore) ==
    Max(10, Min(90, calculateRopePosition(userScore, opponentScore)))

\* the game loop's test on the clamped position
GameLoopEnds(position) ==
    LET clampedPosition == Max(10, Min(90, position))
    IN  clampedPosition <= 10 \/ clampedPosition >= 90

\* what the components read when they render
GameState ==
    [gameMode |-> gameMode, gameOver |-> gameOver, count |-> count,
     dualPlayer1Count |-> player1Count, dualPlayer2Count |-> player2Count,
     aiScore |-> aiScore,
     frozenPlayer1Count |-> frozenPlayer1Count,
     frozenPlayer2Count |-> frozenPlayer2Count,
     winner |-> winner, frozenRopePosition |-> frozenRopePosition]

effectivePlayer1Count(g) ==
    IF g.gameOver /\ g.frozenPlayer1Count # Null
    THEN g.frozenPlayer1Count
    ELSE IF g.gameMode = "ai" THEN g.count ELSE g.dualPlayer1Count

effectivePlayer2Count(g) ==
    IF g.gameOver /\ g.frozenPlayer2Count # Null
    THEN g.frozenPlayer2Count
    ELSE IF g.gameMode = "ai" THEN g.aiScore ELSE g.dualPlayer2Count

\* TugOfWar3D: currentRopePosition of a render
currentRopePosition(g) ==
    calculateRopePosition(effectivePlayer1Count(g), effectivePlayer2Count(g))

\* TugOfWar3D: ropePosition of a render
ropePosition(g) ==
    IF g.gameOver /\ g.frozenRopePosition # Null
    THEN g.frozenRopePosition
    ELSE currentRopePosition(g)

\* worldX of updateRopePosition, in tenths: (position / 100) * 30 - 15
WorldX(position) == position * 3 - 150

\* the setWinner call of updateRopePosition(position), "none" if it makes none
WinCheck_Swapped(g, position) ==
    IF g.gameOver THEN "none"
    ELSE IF WorldX(position) <= baseUserX /\ g.winner # "player2"
         THEN "player2"
    ELSE IF WorldX(position) >= baseAiX /\ g.winner # "player1"
         THEN "player1"
    ELSE "none"

WinCheck(g, position) ==
    IF g.gameOver THEN "none"
    ELSE IF WorldX(position) <= baseUserX /\ g.winner # "player1"
         THEN "player1"
    ELSE IF WorldX(position) >= baseAiX /\ g.winner # "player2"
         THEN "player2"
    ELSE "none"

\* One commit of TugOfWar3D: prev is what the previous render saw, g what
\* this one sees.  The component is mounted only while a mode is chosen.
TugOfWarCommit(prev, g) ==
    IF g.gameMode = "null"
    THEN [g EXCEPT !.winner = "null", !.frozenRopePosition = Null]
    ELSE
    LET mounting == prev.gameMode = "null"
        freezeRuns == \/ mounting
                      \/ g.gameOver # prev.gameOver
                      \/ currentRopePosition(g) # currentRopePosition(prev)
        freezes == freezeRuns /\ g.gameOver /\ g.frozenRopePosition = Null
        clears == freezeRuns /\ ~g.gameOver
        updateRuns == \/ mounting
                      \/ ropePosition(g) # ropePosition(prev)
                      \/ g.gameOver # prev.gameOver
                      \/ g.winner # prev.winner
        set == IF updateRuns THEN WinCheck(g, ropePosition(g)) ELSE "none"
    IN  [g EXCEPT
           !.frozenRopePosition =
               IF freezes THEN currentRopePosition(g)
               ELSE IF clears THEN Null ELSE @,
           !.winner =
               IF set # "none" THEN set
               ELSE IF clears THEN "null" ELSE @]

\* TongueGame's effect that freezes the counts
FreezeCounts_Never(g) ==
    [g EXCEPT !.frozenPlayer1Count = Null, !.frozenPlayer2Count = Null]

FreezeCounts(g) ==
    IF g.gameOver
    THEN IF g.gameMode = "ai"
         THEN [g EXCEPT !.frozenPlayer1Count =
                           IF @ = Null THEN g.count ELSE @]
         ELSE IF g.gameMode = "human"
         THEN [g EXCEPT !.frozenPlayer1Count =
                           IF @ = Null THEN g.dualPlayer1Count ELSE @,
                        !.frozenPlayer2Count =
                           IF @ = Null THEN g.dualPlayer2Count ELSE @]
         ELSE g
    ELSE [g EXCEPT !.frozenPlayer1Count = Null,
                   !.frozenPlayer2Count = Null]

\* render and run the effects until a render changes nothing
RECURSIVE Render(_, _)
Render(prev, g) ==
    LET g2 == FreezeCounts(TugOfWarCommit(prev, g))
    IN  IF g2 = g THEN g ELSE Render(g, g2)

\* TongueGame's effect on [gameMode] that creates or drops the AI opponent
AIOpponentEffect(mode, ai, rf) ==
    IF mode = "ai" /\ ~ai.exists THEN NewAIOpponent(rf)
    ELSE IF mode = "human" /\ ai.exists THEN NoAI
    ELSE ai

\* the new values of the variables a commit writes
Commit(g) ==
    LET r == Render(GameState, g)
    IN  /\ gameMode' = r.gameMode
        /\ gameOver' = r.gameOver
        /\ count' = r.count
        /\ player1Count' = r.dualPlayer1Count
        /\ player2Count' = r.dualPlayer2Count
        /\ aiScore' = r.aiScore
        /\ frozenPlayer1Count' = r.frozenPlayer1Count
        /\ frozenPlayer2Count' = r.frozenPlayer2Count
        /\ winner' = r.winner
        /\ frozenRopePosition' = r.frozenRopePosition

\* TugOfWar3D: the win overlay is rendered
OverlayShown ==
    /\ gameMode # "null"
    /\ gameOver
    /\ \/ winner # "null"
       \/ ropePosition(GameState) <= 10
       \/ ropePosition(GameState) >= 90

\* TugOfWar3D: the side the overlay's text names (player1Wins ? ... : ...)
WinnerShown == IF winner = "player1" THEN "player1" ELSE "player2"

\* a game loop that goes on after the game is over
GameLoopRuns_AfterGameOver ==
    /\ gameMode # "null"
    /\ gameMode = "ai" => player1IsActive /\ aiOpponent.exists
    /\ gameMode = "human" => dualIsActive

\* the game loop effect has a frame requested
GameLoopRuns ==
    /\ gameMode # "null"
    /\ ~gameOver
    /\ gameMode = "ai" => player1IsActive /\ aiOpponent.exists
    /\ gameMode = "human" => dualIsActive

\* what no step of the game touches
gameFrame == <<now, counterVars, p1counter, p2counter, player1TongueState,
               player2TongueState, detectedFaces, frame, hookVars, aiVars, unitVars>>

\* handleModeSelect(mode): the mode is set and the view is committed; the
\* detection it starts after its delay is the step StartDetection
handleModeSelect(mode, rf) ==
    /\ gameMode = "null"
    /\ aiOpponent' = AIOpponentEffect(mode, aiOpponent, rf)
    /\ Commit([GameState EXCEPT !.gameMode = mode])
    /\ lastTimeSet' = FALSE
    /\ UNCHANGED <<player1IsActive, dualIsActive, gameFrame>>

\* startDetection() of the mode's hook succeeds (a failure changes nothing)
StartDetection ==
    /\ \/ gameMode = "ai" /\ ~player1IsActive
          /\ player1IsActive' = TRUE /\ UNCHANGED dualIsActive
       \/ gameMode = "human" /\ ~dualIsActive
          /\ dualIsActive' = TRUE /\ UNCHANGED player1IsActive
    /\ lastTimeSet' = FALSE
    /\ Commit(GameState)
    /\ UNCHANGED <<aiOpponent, gameFrame>>

\* stopDetection() of the mode's hook ("Pause Tracking")
StopDetection ==
    /\ \/ gameMode = "ai" /\ player1IsActive
          /\ player1IsActive' = FALSE /\ UNCHANGED dualIsActive
       \/ gameMode = "human" /\ dualIsActive
          /\ dualIsActive' = FALSE /\ UNCHANGED player1IsActive
    /\ lastTimeSet' = FALSE
    /\ Commit(GameState)
    /\ UNCHANGED <<aiOpponent, gameFrame>>

\* useTongueDetection counts a movement: setCount(counterResult.count)
CountUp ==
    /\ gameMode = "ai"
    /\ player1IsActive
    /\ count < MaxScore
    /\ Commit([GameState EXCEPT !.count = count + 1])
    /\ lastTimeSet' = FALSE
    /\ UNCHANGED <<player1IsActive, dualIsActive, aiOpponent, gameFrame>>

\* useDualTongueDetection counts a movement of one player or of both
DualCountUp(d1, d2) ==
    /\ gameMode = "human"
    /\ dualIsActive
    /\ player1Count + d1 <= MaxScore
    /\ player2Count + d2 <= MaxScore
    /\ Commit([GameState EXCEPT !.dualPlayer1Count = player1Count + d1,
                                !.dualPlayer2Count = player2Count + d2])
    /\ lastTimeSet' = FALSE
    /\ UNCHANGED <<player1IsActive, dualIsActive, aiOpponent, gameFrame>>

\* The opponent as the game keeps it between two updates.  The game reads
\* only getScore(), and update writes difficultyMultiplier before
\* calculateTargetInterval reads it, so the value the field holds between
\* two updates decides nothing: the game state keeps it at its initial 1.0.
BetweenUpdates(ai) == [ai EXCEPT !.difficultyMultiplier = 100]

\* one requestAnimationFrame callback of the game loop; elapsed is the time
\* since the previous callback, which counts only if lastTimeRef survived
gameLoop(elapsed, rf) ==
    LET deltaTime == IF lastTimeSet THEN elapsed ELSE 0
        ai == IF gameMode = "ai" /\ aiOpponent.exists
              THEN BetweenUpdates(AIUpdate(aiOpponent, count, deltaTime, rf))
              ELSE aiOpponent
        newAiScore == IF gameMode = "ai" THEN ai.score ELSE aiScore
        position == IF gameMode = "ai"
                    THEN calculateRopePosition(count, ai.score)
                    ELSE calculateRopePosition(player1Count, player2Count)
        ends == GameLoopEnds(position)
    IN  /\ GameLoopRuns
        /\ aiOpponent.score < MaxScore
        /\ aiOpponent' = ai
        /\ Commit([GameState EXCEPT !.aiScore = newAiScore,
                                    !.gameOver = ends])
        \* the effect's cleanup clears lastTimeRef when a dependency changed
        /\ lastTimeSet' = (newAiScore = aiScore /\ ~ends)
        /\ UNCHANGED <<player1IsActive, dualIsActive, gameFrame>>

\* handleReset()
handleReset(rf) ==
    /\ gameMode # "null"
    /\ aiOpponent' = IF aiOpponent.exists THEN AIReset(aiOpponent, rf)
                     ELSE aiOpponent
    /\ Commit([GameState EXCEPT
                 !.gameOver = FALSE, !.aiScore = 0,
                 !.frozenPlayer1Count = Null, !.frozenPlayer2Count = Null,
                 !.count = IF gameMode = "ai" THEN 0 ELSE @,
                 !.dualPlayer1Count = IF gameMode = "human" THEN 0 ELSE @,
                 !.dualPlayer2Count = IF gameMode = "human" THEN 0 ELSE @])
    /\ lastTimeSet' = FALSE
    /\ UNCHANGED <<player1IsActive, dualIsActive, gameFrame>>

\* handleReturnToModeSelect()
handleReturnToModeSelect(rf) ==
    /\ gameMode # "null"
    /\ player1IsActive' = IF gameMode = "ai" THEN FALSE ELSE player1IsActive
    /\ dualIsActive' = IF gameMode = "human" THEN FALSE ELSE dualIsActive
    /\ aiOpponent' = IF aiOpponent.exists THEN AIReset(aiOpponent, rf)
                     ELSE aiOpponent
    /\ Commit([GameState EXCEPT
                 !.gameMode = "null", !.gameOver = FALSE, !.aiScore = 0,
                 !.frozenPlayer1Count = Null, !.frozenPlayer2Count = Null,
                 !.count = 0, !.dualPlayer1Count = 0,
                 !.dualPlayer2Count = 0])
    /\ lastTimeSet' = FALSE
    /\ UNCHANGED gameFrame

NextGame ==
    \/ \E mode \in {"ai", "human"}, rf \in RandomFactors :
           handleModeSelect(mode, rf)
    \/ StartDetection
    \/ StopDetection
    \/ CountUp
    \/ \E d \in {<<1, 0>>, <<0, 1>>, <<1, 1>>} : DualCountUp(d[1], d[2])
    \/ \E elapsed \in LoopDeltas, rf \in RandomFactors : gameLoop(elapsed, rf)
    \/ \E rf \in RandomFactors : handleReset(rf)
    \/ \E rf \in RandomFactors : handleReturnToModeSelect(rf)

SpecGame == Init /\ [][NextGame]_vars

----------------------------------------------------------------------------
(* Claims about TongueGame and TugOfWar3D (specification SpecGame)         *)

\* the live lead of Player 1 the game loop reads
LiveLead ==
    IF gameMode = "ai" THEN count - aiOpponent.score
    ELSE player1Count - player2Count
\* the rope position 50 - 2 * (p1 - p2) of the live lead
LiveRope == 50 - 2 * LiveLead
\* the step is a callback of the game loop
IsGameLoop == \E elapsed \in LoopDeltas, rf \in RandomFactors :
                  gameLoop(elapsed, rf)

C11_FrozenAfterGameOver ==
    [][(gameOver /\ gameOver') =>
          /\ effectivePlayer1Count(GameState)' = effectivePlayer1Count(GameState)
          /\ effectivePlayer2Count(GameState)' = effectivePlayer2Count(GameState)
          /\ ropePosition(GameState)' = ropePosition(GameState)
      ]_vars

\* the match is over in human mode and a live counter has moved on
C11_Witness ==
    /\ gameMode = "human"
    /\ gameOver
    /\ frozenPlayer1Count # Null /\ player1Count > frozenPlayer1Count
    /\ frozenPlayer2Count # Null
    /\ effectivePlayer1Count(GameState) = frozenPlayer1Count
    /\ ropePosition(GameState) # calculateRopePosition(player1Count, player2Count)


----------------------------------------------------------------------------
(* Claims about the frame pipeline (specification SpecDual)                *)

Cleared(c) ==
    /\ c.currentState = "CENTER"
    /\ c.leftTimestamp = Null
    /\ c.rightTimestamp = Null

\* C12: after a frame whose input for a player was absent, that player's
\* MovementCounter is in state CENTER with both timestamps cleared, so it
\* agrees with the tongue state shown to the UI.
C12_AbsentFrameResets ==
    /\ frame.p1absent =>
          Cleared(p1counter) /\ p1counter.currentState = player1TongueState
    /\ frame.p2absent =>
          Cleared(p2counter) /\ p2counter.currentState = player2TongueState


----------------------------------------------------------------------------
(* useDualTongueDetection: startDetection, the frame loop, stopDetection   *)
(* Every step below is one task of the event loop, except DetectResolved,  *)
(* which is a promise reaction: the reactions queued by a task run before  *)
(* the next task starts.                                                   *)

MaxChains == 2

\* a face whose processing throws (mouth extraction or detect())
ThrowingFace(cx) == [cx |-> cx, kind |-> "throw", x |-> 0]
\* the frames delivered to the running hook: two faces, Player 1's has the
\* larger centre; each is a detection left or right of centre, or throws
LoopFaces(cx) == {[cx |-> cx, kind |-> "ok", x |-> -4],
                  [cx |-> cx, kind |-> "ok", x |-> 4],
                  ThrowingFace(cx)}
LoopFrames == {<<f, g>> : f \in LoopFaces(2), g \in LoopFaces(1)}

\* no promise reaction is queued: the event loop may start a task
TaskMayStart_Always == TRUE

TaskMayStart == microtasks = <<>>

\* the body of processFrame up to its await or return: what it does to
\* <<rafs, refLive, sends>> from the values r, l, s
processFrame(r, l, s) ==
    IF ~isActiveRef' \/ ~faceDetectorRef' THEN <<r, l, s>>
    ELSE IF videoReady' THEN <<r, l, s + 1>>
    ELSE <<r + 1, TRUE, s>>

loopVars == <<rafs, refLive, sends>>
\* the frame loop's variables take the values of the triple t
SetLoop(t) == rafs' = t[1] /\ refLive' = t[2] /\ sends' = t[3]
startVars == <<isActiveRef, dualIsActive, isDetecting, error,
               faceDetectorRef, pipelineRefs, videoReady, startPc, stopped>>
playerVars == <<p1counter, p2counter, player1Count, player2Count,
                player1TongueState, player2TongueState>>
\* what no step of the hook touches
hookFrame == <<counterVars, frame, gameMode, player1IsActive, count, aiScore,
               gameOver, aiOpponent, lastTimeSet, frozenPlayer1Count,
               frozenPlayer2Count, winner, frozenRopePosition, aiVars, unitVars>>

\* the catch block of startDetection
StartFailed ==
    /\ isActiveRef' = FALSE
    /\ dualIsActive' = FALSE
    /\ isDetecting' = FALSE
    /\ error' = TRUE
    /\ startPc' = "idle"

\* startDetection() is called: it drops the video's stream, then awaits
\* initialize() if there is no face detector yet, else getUserMedia
startDetection ==
    /\ TaskMayStart
    /\ startPc = "idle"
    /\ videoReady' = FALSE
    /\ startPc' = IF faceDetectorRef THEN "media" ELSE "init"
    /\ stopped' = FALSE
    /\ UNCHANGED <<isActiveRef, dualIsActive, isDetecting, error,
                   faceDetectorRef, pipelineRefs>>
    /\ UNCHANGED <<now, loopVars, microtasks, frameFailed, frameCounts,
                   playerVars, detectedFaces, hookFrame>>

\* initialize() returns.  It catches its own exception and sets error, so
\* startDetection goes on to getUserMedia whatever the outcome:
\*   "ok"       every ref is set
\*   "face"     FaceDetector.initialize threw: no ref is set
\*   "pipeline" a later statement threw: only faceDetectorRef is set
InitializeDone(outcome) ==
    /\ TaskMayStart
    /\ startPc = "init"
    /\ faceDetectorRef' = (outcome # "face")
    /\ pipelineRefs' = (outcome = "ok")
    /\ error' = (outcome # "ok")
    /\ startPc' = "media"
    /\ UNCHANGED <<isActiveRef, dualIsActive, isDetecting, videoReady,
                   stopped>>
    /\ UNCHANGED <<now, loopVars, microtasks, frameFailed, frameCounts,
                   playerVars, detectedFaces, hookFrame>>

\* getUserMedia settles: the stream is attached and the metadata awaited,
\* or the catch block runs
GetUserMediaDone(ok) ==
    /\ TaskMayStart
    /\ startPc = "media"
    /\ IF ok
       THEN /\ startPc' = "video"
            /\ UNCHANGED <<isActiveRef, dualIsActive, isDetecting, error>>
       ELSE StartFailed
    /\ UNCHANGED <<faceDetectorRef, pipelineRefs, videoReady, stopped>>
    /\ UNCHANGED <<now, loopVars, microtasks, frameFailed, frameCounts,
                   playerVars, detectedFaces, hookFrame>>

\* the video has its metadata and play() settled: the hook turns active,
\* clears error and calls processFrame(); or the video's error event fired
VideoDone(ok) ==
    /\ TaskMayStart
    /\ startPc = "video"
    /\ rafs + sends < MaxChains
    /\ IF ok
       THEN /\ videoReady' = TRUE
            /\ isActiveRef' = TRUE
            /\ dualIsActive' = TRUE
            /\ isDetecting' = TRUE
            /\ error' = FALSE
            /\ startPc' = "idle"
       ELSE StartFailed /\ UNCHANGED videoReady
    /\ UNCHANGED <<faceDetectorRef, pipelineRefs, stopped>>
    /\ SetLoop(IF ok THEN processFrame(rafs, refLive, sends) ELSE loopVars)
    /\ UNCHANGED <<now, microtasks, frameFailed, frameCounts,
                   playerVars, detectedFaces, hookFrame>>

\* a requestAnimationFrame callback runs processFrame; callbacks run in the
\* order they were requested, animationFrameRef names the newest
AnimationFrame ==
    /\ TaskMayStart
    /\ rafs > 0
    /\ UNCHANGED startVars
    /\ SetLoop(processFrame(rafs - 1, refLive /\ rafs > 1, sends))
    /\ UNCHANGED <<now, microtasks, frameFailed, frameCounts,
                   playerVars, detectedFaces, hookFrame>>

\* handleFaceResults(results) up to the awaits of processPlayer1 and
\* processPlayer2: the detections it starts, none if it returns early
DetectionsStarted(faces) ==
    IF pipelineRefs /\ videoReady
    THEN <<[p |-> 1, fwp |-> SortByCenter(faces)],
           [p |-> 2, fwp |-> SortByCenter(faces)]>>
    ELSE <<>>

\* faceDetector.send(video) delivers the frame's landmarks to
\* handleFaceResults and resolves; processFrame requests the next frame
SendResolved(faces) ==
    /\ TaskMayStart
    /\ sends > 0
    /\ player1Count < MaxDualCount /\ player2Count < MaxDualCount
    /\ UNCHANGED startVars
    /\ microtasks' = microtasks \o DetectionsStarted(faces)
    /\ detectedFaces' = IF DetectionsStarted(faces) # <<>> THEN Len(faces)
                        ELSE detectedFaces
    /\ frameFailed' = IF DetectionsStarted(faces) # <<>>
                      THEN <<Player1Face(SortByCenter(faces)).kind = "throw",
                             Player2Face(SortByCenter(faces)).kind = "throw">>
                      ELSE frameFailed
    /\ frameCounts' = IF DetectionsStarted(faces) # <<>>
                      THEN <<player1Count, player2Count>>
                      ELSE frameCounts
    /\ SetLoop(<<rafs + 1, TRUE, sends - 1>>)
    /\ UNCHANGED <<now, playerVars, hookFrame>>

\* faceDetector.send(video) rejects: the catch block requests the next frame
SendRejected_EndsLoop ==
    /\ TaskMayStart
    /\ sends > 0
    /\ UNCHANGED startVars
    /\ frameFailed' = <<TRUE, TRUE>>
    /\ frameCounts' = <<player1Count, player2Count>>
    /\ SetLoop(<<rafs, refLive, sends - 1>>)
    /\ UNCHANGED <<now, microtasks, playerVars, detectedFaces, hookFrame>>

SendRejected ==
    /\ TaskMayStart
    /\ sends > 0
    /\ UNCHANGED startVars
    /\ frameFailed' = <<TRUE, TRUE>>
    /\ frameCounts' = <<player1Count, player2Count>>
    /\ SetLoop(<<rafs + 1, TRUE, sends - 1>>)
    /\ UNCHANGED <<now, microtasks, playerVars, detectedFaces, hookFrame>>

\* the oldest queued reaction runs: processPlayer1 or processPlayer2 goes on
\* after its await of detect(); a throwing face leaves everything as it is
DetectResolved ==
    /\ microtasks # <<>>
    /\ LET m == Head(microtasks)
           f == IF m.p = 1 THEN Player1Face(m.fwp) ELSE Player2Face(m.fwp)
           r == IF m.p = 1 THEN ProcessPlayer1(m.fwp, now)
                ELSE ProcessPlayer2(m.fwp, now)
       IN  IF f.kind = "throw" THEN UNCHANGED playerVars
           ELSE IF m.p = 1
           THEN /\ p1counter' = r.c
                /\ player1Count' = r.count
                /\ player1TongueState' = r.state
                /\ UNCHANGED <<p2counter, player2Count, player2TongueState>>
           ELSE /\ p2counter' = r.c
                /\ player2Count' = r.count
                /\ player2TongueState' = r.state
                /\ UNCHANGED <<p1counter, player1Count, player1TongueState>>
    /\ microtasks' = Tail(microtasks)
    /\ UNCHANGED <<now, startVars, loopVars, frameFailed, frameCounts,
                   detectedFaces, hookFrame>>

\* stopDetection(): cancels the frame animationFrameRef names and takes the
\* stream off the video, whose videoWidth is 0 from then on
stopDetection ==
    /\ TaskMayStart
    /\ isActiveRef' = FALSE
    /\ dualIsActive' = FALSE
    /\ isDetecting' = FALSE
    /\ videoReady' = FALSE
    /\ stopped' = TRUE
    /\ SetLoop(<<IF refLive THEN rafs - 1 ELSE rafs, FALSE, sends>>)
    /\ UNCHANGED <<error, faceDetectorRef, pipelineRefs, startPc>>
    /\ UNCHANGED <<now, microtasks, frameFailed, frameCounts,
                   playerVars, detectedFaces, hookFrame>>

\* resetCounts(), which does nothing before the counters exist
resetCounts ==
    /\ TaskMayStart
    /\ pipelineRefs
    /\ ResetCountsEffect
    /\ frameFailed' = <<FALSE, FALSE>>
    /\ frameCounts' = <<0, 0>>
    /\ UNCHANGED <<now, startVars, loopVars, microtasks, detectedFaces,
                   hookFrame>>

\* time passes between two tasks
LoopTick(d) ==
    /\ TaskMayStart
    /\ FrameTick(d)

NextLoop ==
    \/ startDetection
    \/ \E outcome \in {"ok", "face", "pipeline"} : InitializeDone(outcome)
    \/ \E ok \in BOOLEAN : GetUserMediaDone(ok)
    \/ \E ok \in BOOLEAN : VideoDone(ok)
    \/ AnimationFrame
    \/ \E faces \in LoopFrames : SendResolved(faces)
    \/ SendRejected
    \/ DetectResolved
    \/ stopDetection
    \/ resetCounts
    \/ \E d \in FrameDeltas : LoopTick(d)

SpecLoop == Init /\ [][NextLoop]_vars


----------------------------------------------------------------------------
(* Claims about the frame loop (specification SpecLoop)                    *)

\* C13: from stopDetection on, until startDetection is called again, no
\* step other than resetCounts changes a MovementCounter of the hook: not
\* stopDetection itself, and no frame processing that was under way.
C13_StopLeavesCounters ==
    [][stopped' => \/ UNCHANGED <<p1counter, p2counter>>
                   \/ resetCounts]_vars

\* the same while the hook is inactive from stopDetection on: the results of
\* a send that was in flight at the stop are dropped
C13_InactiveLeavesCounters ==
    [][(stopped' /\ ~isActiveRef') => \/ UNCHANGED <<p1counter, p2counter>>
                                     \/ resetCounts]_vars


\* C14: a frame's processing for a player begins only when no detection of
\* an earlier frame is pending for that player, and the pending detections
\* are applied oldest first, so each counter gets the frames in order.
C14_OneFrameAtATime ==
    [][/\ \A i, j \in 1..Len(microtasks') :
              i # j => microtasks'[i].p # microtasks'[j].p
       /\ Len(microtasks') > Len(microtasks) => microtasks = <<>>
       /\ Len(microtasks') < Len(microtasks) => microtasks' = Tail(microtasks)
      ]_vars

\* a second frame is being processed: Player 1's detection has been applied
\* and scored, Player 2's is still pending
C14_Witness ==
    /\ Len(microtasks) = 1
    /\ microtasks[1].p = 2
    /\ player1Count = 1
    /\ p2counter.currentState # "CENTER"


\* C15: the hook never reports itself active with error cleared while the
\* face detector or the rest of the detection pipeline is missing.
C15_NoActiveWithoutDetector ==
    (dualIsActive /\ ~error) => (faceDetectorRef /\ pipelineRefs)


\* the oldest pending detection is of a face whose processing throws
ThrowPending ==
    /\ microtasks # <<>>
    /\ (IF Head(microtasks).p = 1 THEN Player1Face(Head(microtasks).fwp)
        ELSE Player2Face(Head(microtasks).fwp)).kind = "throw"

----------------------------------------------------------------------------
(* The pull-based AIOpponent: it pulls on a timer.  Scores, strengths and
   multipliers are integers counting thousandths; intervals are in ms.     *)

MaxPullScore == 2000

basePullInterval == 1500
basePullStrength == 500
maxPullMultiplier == 3000

\* what getUserScore() may return (0, 10 and 60 points)
PullUserScores == {0, 10000, 60000}

\* what the onScoreUpdate callback does with the opponent
Callbacks == {"none", "stop", "reset"}

\* calculatePullStrength with the multiplier grown by a tenth per point
calculatePullStrength_Tenth(userScore, score) ==
    LET scoreDifference == userScore - score
    IN  IF scoreDifference <= 0
        THEN basePullStrength
        ELSE (basePullStrength
                * Min(1000 + scoreDifference \div 10, maxPullMultiplier))
                 \div 1000

\* calculatePullStrength(): multiplier = 1 + (scoreDifference / 10) * 0.5
calculatePullStrength(userScore, score) ==
    LET scoreDifference == userScore - score
        multiplier == 1000 + ((scoreDifference \div 10) * 5) \div 10
    IN  IF scoreDifference <= 0
        THEN basePullStrength
        ELSE (basePullStrength * Min(multiplier, maxPullMultiplier))
                 \div 1000

\* calculatePullInterval without the cap of the reduction
calculatePullInterval_NoCap(userScore, score) ==
    LET scoreDifference == userScore - score
    IN  IF scoreDifference <= 0
        THEN basePullInterval
        ELSE (basePullInterval * (1000 - scoreDifference \div 10)) \div 1000

\* calculatePullInterval(): reduction = min(scoreDifference / 10, 0.5)
calculatePullInterval(userScore, score) ==
    LET scoreDifference == userScore - score
        reduction == Min(scoreDifference \div 10, 500)
    IN  IF scoreDifference <= 0
        THEN basePullInterval
        ELSE (basePullInterval * (1000 - reduction)) \div 1000

\* The opponent with what its methods act on besides its fields: the pending
\* timeouts and the record of the calls made.
PullMachine ==
    [ai |-> pullAI, timeouts |-> timeouts, called |-> FALSE,
     lastPull |-> lastPull, lastSchedule |-> lastSchedule]

\* stop() that only clears the timer
stop_OnlyClearsTimer(m) ==
    [m EXCEPT !.ai.pullTimer = "null",
              !.timeouts = IF m.ai.pullTimer = "pending"
                           THEN m.timeouts - 1 ELSE m.timeouts]

\* stop(): clearTimeout cancels the timeout when it is still pending
stop(m) ==
    [m EXCEPT !.ai.isActive = FALSE,
              !.ai.pullTimer = "null",
              !.ai.onScoreUpdate = FALSE,
              !.ai.getUserScore = FALSE,
              !.timeouts = IF m.ai.pullTimer = "pending"
                           THEN m.timeouts - 1 ELSE m.timeouts]

\* reset()
reset(m) == stop([m EXCEPT !.ai.score = 0])

\* the onScoreUpdate callback running cb
Callback(m, cb) ==
    CASE cb = "stop" -> stop(m)
      [] cb = "reset" -> reset(m)
      [] OTHER -> m

\* performPull()
performPull(m, userScore, cb) ==
    IF ~m.ai.isActive \/ ~m.ai.getUserScore
    THEN m
    ELSE LET pullStrength == calculatePullStrength(userScore, m.ai.score)
             pulled == [m EXCEPT !.ai.score = @ + pullStrength,
                                 !.lastPull = [userScore |-> userScore,
                                               score |-> m.ai.score,
                                               result |-> pullStrength]]
         IN  IF pulled.ai.onScoreUpdate
             THEN Callback([pulled EXCEPT !.called = TRUE], cb)
             ELSE pulled

\* scheduleNextPull()
scheduleNextPull(m, userScore) ==
    IF ~m.ai.isActive \/ ~m.ai.getUserScore
    THEN m
    ELSE [m EXCEPT !.ai.pullTimer = "pending",
                   !.timeouts = @ + 1,
                   !.lastSchedule =
                       [userScore |-> userScore, score |-> m.ai.score,
                        result |-> calculatePullInterval(userScore,
                                                         m.ai.score)]]

\* start(getUserScore, onScoreUpdate)
start(m, userScore, cb) ==
    IF m.ai.isActive
    THEN m
    ELSE scheduleNextPull(
             performPull([m EXCEPT !.ai.isActive = TRUE,
                                   !.ai.getUserScore = TRUE,
                                   !.ai.onScoreUpdate = TRUE],
                         userScore, cb),
             userScore)

\* the timeout callback: performPull(); scheduleNextPull()
TimerCallback(m, userScore, cb) ==
    scheduleNextPull(
        performPull([m EXCEPT !.timeouts = @ - 1,
                              !.ai.pullTimer = IF @ = "pending"
                                               THEN "fired" ELSE @],
                    userScore, cb),
        userScore)

SetPull(m, op) ==
    /\ pullAI' = m.ai
    /\ timeouts' = m.timeouts
    /\ pullCalled' = m.called
    /\ lastPull' = m.lastPull
    /\ lastSchedule' = m.lastSchedule
    /\ pullOp' = op

pullFrame == <<now, counterVars, dualVars, gameVars, hookVars, rateVars,
               unitVars>>

PullStart ==
    /\ pullAI.score < MaxPullScore
    /\ \E userScore \in PullUserScores, cb \in Callbacks :
           SetPull(start(PullMachine, userScore, cb), "start")
    /\ UNCHANGED pullFrame

PullStop ==
    /\ SetPull(stop(PullMachine), "stop")
    /\ UNCHANGED pullFrame

PullReset ==
    /\ SetPull(reset(PullMachine), "reset")
    /\ UNCHANGED pullFrame

PullTimer ==
    /\ timeouts > 0
    /\ pullAI.score < MaxPullScore
    /\ \E userScore \in PullUserScores, cb \in Callbacks :
           SetPull(TimerCallback(PullMachine, userScore, cb), "timer")
    /\ UNCHANGED pullFrame

NextPull ==
    \/ PullStart
    \/ PullStop
    \/ PullReset
    \/ PullTimer

SpecPull == Init /\ [][NextPull]_vars

\* C17: once the pull-based opponent has been stopped or reset, and until
\* start is called again, no step calls onScoreUpdate and the score changes
\* only by a reset putting it to 0; a stop or reset step itself calls
\* nothing, and the score is 0 after every reset.
C17_StoppedStaysQuiet ==
    [][/\ (~pullAI.isActive /\ pullOp' # "start")
            => /\ ~pullCalled'
               /\ pullAI'.score = pullAI.score \/ pullAI'.score = 0
       /\ pullOp' \in {"stop", "reset"}
            => /\ ~pullCalled'
               /\ ~pullAI'.isActive
               /\ pullAI'.score = pullAI.score \/ pullOp' = "reset"
       /\ pullOp' = "reset" => pullAI'.score = 0
       /\ pullAI'.isActive \/ timeouts' = 0]_vars

\* a timer step that pulled, then saw the callback stop the opponent
C17_Witness ==
    /\ pullOp = "timer"
    /\ pullCalled
    /\ ~pullAI.isActive
    /\ pullAI.score > 0
    /\ timeouts = 0

\* scores the two functions are compared on besides those of the run
ScoreGrid == {0, 250, 1000, 5000, 10000, 60000}

\* the strength and the interval as the specification states them
StatedStrength(userScore, score) ==
    IF userScore <= score
    THEN basePullStrength
    ELSE (basePullStrength
            * Min(1000 + (userScore - score) \div 20, maxPullMultiplier))
             \div 1000

StatedInterval(userScore, score) ==
    IF userScore <= score
    THEN basePullInterval
    ELSE (basePullInterval
            * (1000 - Min((userScore - score) \div 10, 500))) \div 1000

\* C19: every strength the pull-based opponent computed is the base strength
\* when the user is not ahead and base * min(1 + deficit/20, maxPullMultiplier)
\* when the user is ahead; every interval is the base interval, resp.
\* base * (1 - min(deficit/10, 0.5)); the strength lies between base and
\* maxPullMultiplier * base, the interval between half the base and the base;
\* a larger deficit never gives a smaller strength or a longer interval.
C19_StrengthAndInterval ==
    /\ lastPull # NoPull =>
         /\ lastPull.result = StatedStrength(lastPull.userScore,
                                             lastPull.score)
         /\ lastPull.result >= basePullStrength
         /\ lastPull.result
              <= (maxPullMultiplier * basePullStrength) \div 1000
         /\ \A u \in ScoreGrid, a \in ScoreGrid :
              /\ u - a >= lastPull.userScore - lastPull.score
                   => calculatePullStrength(u, a) >= lastPull.result
              /\ u - a <= lastPull.userScore - lastPull.score
                   => calculatePullStrength(u, a) <= lastPull.result
    /\ lastSchedule # NoPull =>
         /\ lastSchedule.result = StatedInterval(lastSchedule.userScore,
                                                 lastSchedule.score)
         /\ lastSchedule.result <= basePullInterval
         /\ 2 * lastSchedule.result >= basePullInterval
         /\ \A u \in ScoreGrid, a \in ScoreGrid :
              /\ u - a >= lastSchedule.userScore - lastSchedule.score
                   => calculatePullInterval(u, a) <= lastSchedule.result
              /\ u - a <= lastSchedule.userScore - lastSchedule.score
                   => calculatePullInterval(u, a) >= lastSchedule.result

\* a pull with the user ahead and the multiplier below its cap, followed by
\* an interval with the reduction at its cap
C19_Witness ==
    /\ lastPull # NoPull
    /\ lastPull.userScore > lastPull.score
    /\ lastPull.result > basePullStrength
    /\ lastPull.result < (maxPullMultiplier * basePullStrength) \div 1000
    /\ lastSchedule # NoPull
    /\ lastSchedule.userScore > lastSchedule.score
    /\ 2 * lastSchedule.result = basePullInterval

----------------------------------------------------------------------------
(* The rate-based AIOpponent on its own, driven by arbitrary calls          *)

MaxRateScore == 3

\* the userScore arguments of update
RateUserScores == {0, 20, 200}

\* the deltaTime arguments of update, in ms, multiples of 100
RateDeltas == {0, 100, 500, 2000, 60000}

\* 100 * randomFactor: with the default randomness 0.3, or with a randomness
\* of 1 set by setDifficulty
RateFactors == RandomFactors \cup {200}

rateFrame == <<now, counterVars, dualVars, gameVars, hookVars, pullVars,
               unitVars>>

\* new AIOpponent(options)
RateNew ==
    /\ \E rf \in RateFactors : opponent' = NewAIOpponent(rf)
    /\ sinceIncrement' = 0
    /\ updateInput' = Null
    /\ UNCHANGED rateFrame

\* opponent.update(userScore, deltaTime)
RateUpdate ==
    /\ opponent.exists
    /\ opponent.score < MaxRateScore
    /\ \E userScore \in RateUserScores, deltaTime \in RateDeltas,
          rf \in RateFactors :
          /\ opponent' = AIUpdate(opponent, userScore, deltaTime, rf)
          /\ sinceIncrement' = IF opponent'.score > opponent.score
                               THEN 0
                               ELSE sinceIncrement + deltaTime
          /\ updateInput' = userScore
    /\ UNCHANGED rateFrame

\* opponent.reset()
RateReset ==
    /\ opponent.exists
    /\ \E rf \in RateFactors : opponent' = AIReset(opponent, rf)
    /\ sinceIncrement' = 0
    /\ updateInput' = Null
    /\ UNCHANGED rateFrame

NextRate ==
    \/ RateNew
    \/ RateUpdate
    \/ RateReset

SpecRate == Init /\ [][NextRate]_vars

\* C18: the deltaTime summed since the opponent's last increment (or since
\* its construction or reset) is always below maxInterval: by the update
\* that brings the sum to maxInterval the score has been incremented.  A
\* score still 0 has seen less than maxInterval in total.
C18_IncrementWithinMaxInterval ==
    opponent.exists =>
        /\ sinceIncrement < maxInterval
        /\ sinceIncrement = opponent.timeAccumulator

\* an opponent that has scored and is one short step from scoring again
C18_Witness ==
    /\ opponent.exists
    /\ opponent.score >= 1
    /\ sinceIncrement > 0
    /\ sinceIncrement + 100 >= opponent.targetInterval

\* C20: after every update difficultyMultiplier is 1 + userScore / 100, and
\* targetInterval always lies in [minInterval, maxInterval].
C20_DifficultyAndIntervalRange ==
    opponent.exists =>
        /\ opponent.targetInterval >= minInterval
        /\ opponent.targetInterval <= maxInterval
        /\ updateInput # Null
             => opponent.difficultyMultiplier = 100 + updateInput
        /\ updateInput = Null => opponent.difficultyMultiplier = 100

\* the hardest opponent, with its interval at the lower end
C20_Witness ==
    /\ opponent.exists
    /\ updateInput = 200
    /\ opponent.difficultyMultiplier = 300
    /\ opponent.targetInterval = minInterval
    /\ opponent.score >= 1

----------------------------------------------------------------------------
(* The rope mapping as a function of the two counts                        *)

\* the pairs of counts on the board: the AI game's and the dual game's
BoardCounts == {<<count, aiOpponent.score>>, <<player1Count, player2Count>>}

\* the two mappings mirror about 50 on (a, b), and a point moves the rope 2
Mirrors(a, b) ==
    /\ calculateRopePosition(a, b) + calculateRopePosition(b, a) = 100
    /\ clampedRopePosition(a, b) + clampedRopePosition(b, a) = 100
    /\ calculateRopePosition(a + 1, b) = calculateRopePosition(a, b) - 2
    /\ calculateRopePosition(a, b + 1) = calculateRopePosition(a, b) + 2

\* C21: for the counts on the board against every opposing count up to twice
\* MaxScore, position(a, b) + position(b, a) = 100 for the unclamped mapping
\* and for the mapping clamped to [10, 90], and one more point for either
\* side moves the unclamped position by exactly 2.
C21_PositionsMirror ==
    \A p \in BoardCounts : \A b \in 0..(2 * MaxScore) :
        Mirrors(p[1], b) /\ Mirrors(b, p[2])

\* a board on which the clamp binds on one side and the lead is odd
C21_Witness ==
    /\ gameMode = "human"
    /\ player1Count - player2Count = 3
    /\ clampedRopePosition(player1Count, 2 * MaxScore) = 90
    /\ calculateRopePosition(player1Count, 2 * MaxScore) > 90

----------------------------------------------------------------------------
(* Two MovementCounters that differ only in minHoldFrames, given the same   *)
(* calls at the same times                                                  *)

\* time between two calls
HoldDeltas == {400, 700}

\* the frames arguments of setMinHoldFrames
HoldFrames == {1, 5}

holdFrame == <<counterVars, dualVars, gameVars, hookVars, aiVars, detectVars,
               trackerVars, cycleVars, pullGameVars>>

HoldTick ==
    /\ \E d \in HoldDeltas : now + d <= MaxClock /\ now' = now + d
    /\ UNCHANGED <<holdFrame, holdVars>>

\* held.setMinHoldFrames(frames)
HoldSet ==
    /\ \E frames \in HoldFrames : held' = setMinHoldFrames(held, frames)
    /\ UNCHANGED <<now, holdFrame, plain, plainRet, heldRet>>

\* plain.update(x, out) and held.update(x, out)
HoldUpdate ==
    /\ plain.count < MaxCount
    /\ held.count < MaxCount
    /\ \E x \in XIn, out \in BOOLEAN :
          LET p == CounterUpdate(plain, x, out, now)
              h == CounterUpdate(held, x, out, now)
          IN  /\ plain' = p.c
              /\ plainRet' = p.ret
              /\ held' = h.c
              /\ heldRet' = h.ret
    /\ UNCHANGED <<now, holdFrame>>

\* plain.reset() and held.reset()
HoldReset ==
    /\ plain' = CounterReset(plain)
    /\ held' = CounterReset(held)
    /\ UNCHANGED <<now, holdFrame, plainRet, heldRet>>

NextHold ==
    \/ HoldTick
    \/ HoldSet
    \/ HoldUpdate
    \/ HoldReset

SpecHold == Init /\ [][NextHold]_vars

----------------------------------------------------------------------------
(* Expiry of the counter's timestamps                                      *)

\* the last operation was an update that classified a position
JustClassified == lastOp = "update" /\ call.out /\ call.x # NoRelX

\* C23: after every update that classifies a position, each non-null
\* timestamp of the counter is at most timeWindow older than the time of
\* that call.
C23_StaleTimestampsExpire ==
    JustClassified =>
        /\ counter.leftTimestamp # Null
             => now - counter.leftTimestamp <= timeWindow
        /\ counter.rightTimestamp # Null
             => now - counter.rightTimestamp <= timeWindow

\* the same for every timestamp other than the clock value 0
C23_NonzeroTimestampsExpire ==
    JustClassified =>
        /\ Truthy(counter.leftTimestamp)
             => now - counter.leftTimestamp <= timeWindow
        /\ Truthy(counter.rightTimestamp)
             => now - counter.rightTimestamp <= timeWindow

----------------------------------------------------------------------------
(* TongueDetector.detectFromLandmarks.  Lengths are in pixels, the opening  *)
(* ratio and the confidence in thousandths.                                 *)

MaxLandmarks == 2

\* y of an inner-lip landmark
LandmarkYs == {0, 2, 3, 5, 8, 10, 16}

\* boundingBox.height as extractMouthRegion computes it: a padded extent,
\* negative when the mouth lies below the image
BoxHeights == {-10, 10, 20}

RECURSIVE SeqsUpTo(_, _)
SeqsUpTo(S, n) ==
    IF n = 0 THEN {<<>>}
    ELSE LET shorter == SeqsUpTo(S, n - 1)
         IN  shorter \cup {Append(q, y) : q \in shorter, y \in S}

\* the mouthRegion arguments: null, or the y of its inner landmarks and the
\* height of its bounding box
MouthRegions ==
    {NoRegion} \cup
    [given : {TRUE}, innerLandmarks : SeqsUpTo(LandmarkYs, MaxLandmarks),
     height : BoxHeights]

SetMax(S) == CHOOSE m \in S : \A y \in S : y <= m
SetMin(S) == CHOOSE m \in S : \A y \in S : m <= y

\* what the function returns for an opening ratio: null below 0.3
DetectionOf(openingRatio, tongueOut) ==
    IF ~tongueOut
    THEN NoDetection
    ELSE [isNull |-> FALSE, tongueOut |-> tongueOut,
          confidence |-> Min(1000, Max(0, (openingRatio - 300) * 2)),
          openingRatio |-> openingRatio]

\* detectFromLandmarks taking a ratio of exactly 0.3 for a closed mouth
detectFromLandmarks_Strict(region) ==
    IF ~region.given \/ Len(region.innerLandmarks) = 0
    THEN NoDetection
    ELSE LET ys == {region.innerLandmarks[i] :
                        i \in 1..Len(region.innerLandmarks)}
             openingRatio == ((SetMax(ys) - SetMin(ys)) * 1000)
                                 \div region.height
         IN  DetectionOf(openingRatio, openingRatio > 300)

\* detectFromLandmarks(mouthRegion, imageWidth, imageHeight)
detectFromLandmarks(region) ==
    IF ~region.given \/ Len(region.innerLandmarks) = 0
    THEN NoDetection
    ELSE LET ys == {region.innerLandmarks[i] :
                        i \in 1..Len(region.innerLandmarks)}
             topLipY == SetMin(ys)
             bottomLipY == SetMax(ys)
             mouthOpening == bottomLipY - topLipY
             openingRatio == (mouthOpening * 1000) \div region.height
             tongueOut == openingRatio >= 300
         IN  DetectionOf(openingRatio, tongueOut)

detectFrame == <<now, counterVars, dualVars, gameVars, hookVars, aiVars,
                 holdVars, trackerVars, cycleVars, pullGameVars>>

\* one call of detectFromLandmarks
Detect ==
    /\ \E region \in MouthRegions :
          /\ mouthRegion' = region
          /\ detection' = detectFromLandmarks(region)
    /\ UNCHANGED detectFrame

NextDetect == Detect

SpecDetect == Init /\ [][NextDetect]_vars

\* the vertical extent of the inner landmarks of the last call
Opening ==
    LET ys == {mouthRegion.innerLandmarks[i] :
                   i \in 1..Len(mouthRegion.innerLandmarks)}
    IN  IF ys = {} THEN 0 ELSE SetMax(ys) - SetMin(ys)

\* extent / height < 0.3
RatioBelowThreshold ==
    IF mouthRegion.height > 0
    THEN 10 * Opening < 3 * mouthRegion.height
    ELSE 10 * Opening > 3 * mouthRegion.height

----------------------------------------------------------------------------
(* The per-player tongue tracker (temporal smoother).  relativeX counts     *)
(* 1e-4, confidence counts thousandths.                                     *)

smoothingWindow == 5
minConfidence == 300

\* the detections given to the tracker: null, or one with a confidence
\* below, at or above minConfidence and tongueOut either way
Detections ==
    {NullDetection} \cup
    [given : {TRUE}, relativeX : {-4, 4}, confidence : {200, 300, 900},
     tongueOut : BOOLEAN]

\* the tracker rejects the detection
Rejected(d) == ~d.given \/ d.confidence < minConfidence \/ ~d.tongueOut

\* sums over the history, entry i weighing i * confidence
RECURSIVE WeightedSum(_, _)
WeightedSum(h, i) ==
    IF i = 0 THEN 0
    ELSE WeightedSum(h, i - 1) + h[i].relativeX * i * h[i].confidence
RECURSIVE WeightSum(_, _)
WeightSum(h, i) ==
    IF i = 0 THEN 0 ELSE WeightSum(h, i - 1) + i * h[i].confidence

\* the smoothed relativeX of a history, rounded down
Smoothed(h) == WeightedSum(h, Len(h)) \div WeightSum(h, Len(h))

\* update that drops the position on a rejected detection
trackerUpdate_DropsPosition(t, d) ==
    IF Rejected(d)
    THEN [t EXCEPT !.position = NoPosition]
    ELSE LET appended == Append(t.history, [relativeX |-> d.relativeX,
                                            confidence |-> d.confidence])
             h == IF Len(appended) > smoothingWindow
                  THEN Tail(appended) ELSE appended
         IN  [history |-> h,
              position |-> [given |-> TRUE, relativeX |-> Smoothed(h),
                            isVisible |-> TRUE]]

\* update(detection): the tracker afterwards; its position is what the
\* call returns
trackerUpdate(t, d) ==
    IF Rejected(d)
    THEN [t EXCEPT !.position.isVisible = FALSE]
    ELSE LET appended == Append(t.history, [relativeX |-> d.relativeX,
                                            confidence |-> d.confidence])
             h == IF Len(appended) > smoothingWindow
                  THEN Tail(appended) ELSE appended
         IN  [history |-> h,
              position |-> [given |-> TRUE, relativeX |-> Smoothed(h),
                            isVisible |-> TRUE]]

trackerFrame == <<now, counterVars, dualVars, gameVars, hookVars, aiVars,
                  holdVars, detectVars, cycleVars, pullGameVars>>

\* tracker.update(detection)
TrackerUpdate ==
    /\ \E d \in Detections :
          /\ tracker' = trackerUpdate(tracker, d)
          /\ tracked' = tracker'.position
          /\ trackerCall' = d
          /\ lastAccepted' = IF Rejected(d) THEN lastAccepted
                             ELSE tracker'.position.relativeX
    /\ UNCHANGED trackerFrame

\* tracker.reset()
TrackerReset ==
    /\ tracker' = NewTracker
    /\ tracked' = NoPosition
    /\ trackerCall' = NullDetection
    /\ lastAccepted' = NoRelX
    /\ UNCHANGED trackerFrame

NextTracker ==
    \/ TrackerUpdate
    \/ TrackerReset

SpecTracker == Init /\ [][NextTracker]_vars

\* the step is an update with a rejected detection, an accepted one before
RejectedAfterAccepted ==
    /\ tracker' = trackerUpdate(tracker, trackerCall')
    /\ tracked' = tracker'.position
    /\ Rejected(trackerCall')
    /\ lastAccepted # NoRelX
    /\ lastAccepted' = lastAccepted

\* C25: an update with a rejected detection (null, confidence below
\* minConfidence, or tongueOut false) leaves the history as it was and
\* returns the relativeX of the previous accepted call with isVisible false,
\* however many rejected updates came in between.
C25_RejectionKeepsPosition ==
    [][RejectedAfterAccepted =>
          /\ tracker'.history = tracker.history
          /\ tracked'.given
          /\ tracked'.relativeX = lastAccepted
          /\ ~tracked'.isVisible]_vars

\* a rejected update after the history has filled up
C25_Witness ==
    /\ Len(tracker.history) = smoothingWindow
    /\ Rejected(trackerCall)
    /\ trackerCall.given
    /\ tracked.given
    /\ ~tracked.isVisible
    /\ tracked.relativeX = lastAccepted
    /\ lastAccepted # 4 /\ lastAccepted # -4

----------------------------------------------------------------------------
(* Increments against changes of direction                                 *)

MaxCycleClock == 1500

\* time between two calls
CycleDeltas == {400, 1001}

\* relativeX arguments: left, centre, right, or absent
CycleXs == {-20, 0, 20, NoRelX}

cycleFrame == <<dualVars, gameVars, hookVars, aiVars, holdVars, detectVars,
                trackerVars, pullGameVars>>

CycleTick ==
    /\ \E d \in CycleDeltas : now + d <= MaxCycleClock /\ now' = now + d
    /\ lastOp' = "tick"
    /\ UNCHANGED <<counter, ret, call, pendL, pendR, sawL, sawR>>
    /\ UNCHANGED <<cycleVars, cycleFrame>>

\* counter.update(x, out), with the directions classified so far
CycleUpdate ==
    /\ \E x \in CycleXs, out \in BOOLEAN :
          LET cls == Classified(counter, x, out)
              scored == CounterUpdate(counter, x, out, now).c.count
                            # counter.count
              change == DirectionChange(lastDir, cls)
          IN  /\ UpdateCalled(x, out)
              /\ lastDir' = IF cls \in {"LEFT", "RIGHT"} THEN cls
                             ELSE lastDir
              /\ unscored' = Min(MaxUnscored,
                                 unscored + (IF change THEN 1 ELSE 0))
                                - (IF scored THEN 1 ELSE 0)
              /\ changedSince' = (~scored /\ out
                                      /\ (changedSince \/ change))
    /\ UNCHANGED <<now, cycleFrame>>

\* counter.reset(): a new sequence of calls begins
CycleReset ==
    /\ counter' = CounterReset(counter)
    /\ lastOp' = "reset"
    /\ pendL' = Null
    /\ pendR' = Null
    /\ sawL' = FALSE
    /\ sawR' = FALSE
    /\ lastDir' = "NONE"
    /\ unscored' = 0
    /\ changedSince' = FALSE
    /\ UNCHANGED <<now, ret, call, cycleFrame>>

NextCycle ==
    \/ CycleTick
    \/ CycleUpdate
    \/ CycleReset

SpecCycle == Init /\ [][NextCycle]_vars

\* C26: the increments of count never outnumber the changes of direction
\* between LEFT and RIGHT among the classified positions (CENTER ignored),
\* and an update increments count only if the direction changed since the
\* previous increment, tongue-in call or reset, this call included.
C26_OneScorePerDirectionChange ==
    [][ /\ unscored' >= 0
        /\ (IsUpdate /\ counter'.count > counter.count)
              => \/ changedSince
                 \/ DirectionChange(lastDir, CallClass) ]_vars

\* LEFT, RIGHT, LEFT, RIGHT: three changes of direction, two increments
C26_Witness ==
    /\ counter.count = 2
    /\ unscored = 1
    /\ lastDir = "RIGHT"
    /\ ret.transition = "LEFT_TO_RIGHT"

----------------------------------------------------------------------------
(* The pull game: TongueGame starting the pull-based AIOpponent with a
   function that returns the count of the render that created it.  A state
   change, the render after it and the effects of that render are one step. *)

MaxPullGameCount == 2
MaxRestarts == 1

\* () => count, in the units of the opponent's scores
getUserScore(c) == c * 1000

pullGameFrame == <<now, counterVars, dualVars, gameVars, hookVars, rateVars,
                   holdVars, detectVars, trackerVars, cycleVars>>

\* aiOpponentRef.current.start(() => c, handleAiScoreUpdate): the function is
\* stored only when start does not return early
StartWith(m, c) == start(m, getUserScore(c), "none")

ClosureAfterStart(m, c) == IF m.ai.isActive THEN closureCount ELSE c

\* the effect on [isActive, isDetecting, count]
StartEffect(m, detecting, c) ==
    IF detecting
    THEN [m |-> StartWith(m, c), closure |-> ClosureAfterStart(m, c)]
    ELSE [m |-> stop(m), closure |-> closureCount]

\* startDetection succeeded: isActive and isDetecting become true
PullGameDetect ==
    /\ ~pullGameDetecting
    /\ pullAI.score < MaxPullScore
    /\ pullGameDetecting' = TRUE
    /\ LET e == StartEffect(PullMachine, TRUE, pullGameCount)
       IN  /\ SetPull(e.m, "start")
           /\ closureCount' = e.closure
    /\ UNCHANGED <<pullGameCount, restarts, pullGameFrame>>

\* stopDetection: isActive and isDetecting become false
PullGameStop ==
    /\ pullGameDetecting
    /\ pullGameDetecting' = FALSE
    /\ LET e == StartEffect(PullMachine, FALSE, pullGameCount)
       IN  /\ SetPull(e.m, "stop")
           /\ closureCount' = e.closure
    /\ UNCHANGED <<pullGameCount, restarts, pullGameFrame>>

\* processFrame: setCount(counterResult.count) with a new count
PullGameCount ==
    /\ pullGameDetecting
    /\ pullGameCount < MaxPullGameCount
    /\ pullAI.score < MaxPullScore
    /\ pullGameCount' = pullGameCount + 1
    /\ LET e == StartEffect(PullMachine, TRUE, pullGameCount + 1)
       IN  /\ SetPull(e.m, "count")
           /\ closureCount' = e.closure
    /\ UNCHANGED <<pullGameDetecting, restarts, pullGameFrame>>

\* the timeout of scheduleNextPull
PullGameTimer ==
    /\ timeouts > 0
    /\ pullAI.score < MaxPullScore
    /\ SetPull(TimerCallback(PullMachine, getUserScore(closureCount), "none"),
               "timer")
    /\ UNCHANGED <<pullGameVars, pullGameFrame>>

\* handleReset, then the render with count 0 and its effect when the count
\* changed
handleReset_pull ==
    /\ pullGameDetecting => Len(restarts) < MaxRestarts
    /\ pullGameCount' = 0
    /\ restarts' = IF pullGameDetecting
                   THEN Append(restarts, pullGameCount)
                   ELSE restarts
    /\ LET m == reset(PullMachine)
           e == IF pullGameCount # 0
                THEN StartEffect(m, pullGameDetecting, 0)
                ELSE [m |-> m, closure |-> closureCount]
       IN  /\ SetPull(e.m, "reset")
           /\ closureCount' = e.closure
    /\ UNCHANGED <<pullGameDetecting, pullGameFrame>>

\* the 100 ms timeout of handleReset
PullGameRestart ==
    /\ restarts # <<>>
    /\ pullAI.score < MaxPullScore
    /\ restarts' = Tail(restarts)
    /\ SetPull(StartWith(PullMachine, Head(restarts)), "restart")
    /\ closureCount' = ClosureAfterStart(PullMachine, Head(restarts))
    /\ UNCHANGED <<pullGameCount, pullGameDetecting, pullGameFrame>>

NextPullGame ==
    \/ PullGameDetect
    \/ PullGameStop
    \/ PullGameCount
    \/ PullGameTimer
    \/ handleReset_pull
    \/ PullGameRestart

SpecPullGame == Init /\ [][NextPullGame]_vars

\* C27: in the pull game every step that pulls computes the strength, and
\* the interval of the timeout it schedules, from the player's count at
\* the time of that step.
C27_PullSeesCurrentCount ==
    [][pullCalled'
          => /\ lastPull'.userScore = getUserScore(pullGameCount')
             /\ lastSchedule'.userScore = getUserScore(pullGameCount')]_vars

\* a timer pull that used count 0 while the player's count is 2
C27_StaleCount ==
    /\ pullOp = "timer"
    /\ pullCalled
    /\ pullGameCount = 2
    /\ lastPull.userScore = 0

----------------------------------------------------------------------------
(* The frame loop once more (specification SpecLoop)                       *)

\* C28: whatever the order of startDetection and stopDetection calls, at
\* most one processFrame is awaiting the landmark source or requested as an
\* animation frame at any time.
C28_OneFrameLoop == rafs + sends <= 1

\* two loops run side by side in the active hook: one awaits the landmark
\* source, the other is requested as an animation frame
C28_TwoLoops ==
    /\ isActiveRef
    /\ videoReady
    /\ sends = 1
    /\ rafs = 1

----------------------------------------------------------------------------
(* The rate-based AIOpponent once more (specification SpecRate)            *)

\* C29: one update raises the score by 0 or by exactly 1 whatever deltaTime
\* is, and an update that raises it leaves the time accumulator at 0; the
\* score is a natural number and only reset lowers it; reset leaves score 0,
\* time accumulator 0 and difficulty multiplier 1.
C29_OnePointPerUpdate ==
    [][/\ opponent'.exists => opponent'.score \in Nat
       /\ RateUpdate =>
            /\ opponent'.score \in {opponent.score, opponent.score + 1}
            /\ opponent'.score = opponent.score + 1
                 => opponent'.timeAccumulator = 0
       /\ (opponent.exists /\ ~RateReset /\ ~RateNew)
            => opponent'.score >= opponent.score
       /\ RateReset =>
            /\ opponent'.score = 0
            /\ opponent'.timeAccumulator = 0
            /\ opponent'.difficultyMultiplier = 100]_vars

\* updates have brought the opponent to the highest score, the last point
\* just made: the accumulator is 0 again
C29_Witness ==
    /\ opponent.exists
    /\ opponent.score = MaxRateScore
    /\ updateInput # Null
    /\ sinceIncrement = 0
    /\ opponent.timeAccumulator = 0

----------------------------------------------------------------------------
(* The end of a game once more (specification SpecGame)                    *)

IsHandleReset == \E rf \in RandomFactors : handleReset(rf)
IsReturnToModeSelect == \E rf \in RandomFactors : handleReturnToModeSelect(rf)

\* C30: a step from a state with gameOver true that is neither handleReset
\* nor handleReturnToModeSelect leaves gameOver true and changes neither the
\* AI score nor the winner declared; handleReset leaves the game not over,
\* the AI score and the player counts 0, the frozen values cleared and the
\* rope at 50.
C30_GameOverUntilReset ==
    [][/\ (gameOver /\ ~IsHandleReset /\ ~IsReturnToModeSelect) =>
            /\ gameOver'
            /\ aiScore' = aiScore
            /\ aiOpponent'.score = aiOpponent.score
            /\ winner' = winner
            /\ OverlayShown => OverlayShown' /\ WinnerShown' = WinnerShown
       /\ IsHandleReset =>
            /\ ~gameOver'
            /\ aiScore' = 0
            /\ aiOpponent'.exists => aiOpponent'.score = 0
            /\ count' = 0 /\ player1Count' = 0 /\ player2Count' = 0
            /\ frozenPlayer1Count' = Null /\ frozenPlayer2Count' = Null
            /\ frozenRopePosition' = Null
            /\ ropePosition(GameState)' = 50
      ]_vars

\* the AI has won, and the player has scored since: the live lead of the AI
\* is below the threshold again while the game stays over
C30_Witness ==
    /\ gameMode = "ai"
    /\ gameOver
    /\ frozenPlayer1Count # Null
    /\ count > frozenPlayer1Count
    /\ aiScore - frozenPlayer1Count >= 20
    /\ aiScore - count < 20
    /\ OverlayShown
    /\ WinnerShown = "player2"
====
